---- MODULE Spec2Model ----
(***************************************************************************)
(* Disk-based B+ tree of pranavdb: index/diskTree.go on top of the index    *)
(* file (IndexFile: header, page allocation, free list, readNode/writeNode).*)
(* One action per public operation (Insert, Delete, Close, Open); every     *)
(* action runs the whole call, including all page reads and writes.         *)
(***************************************************************************)
EXTENDS Integers, Sequences, FiniteSets, TLC

VARIABLES
    pages,          \* the pages of the index file: pages[i] is the page at offset HeaderSize + i*PageSize
    hdrRoot,        \* header bytes 8..11 on disk
    hdrOrder,       \* header bytes 12..15 on disk
    hdrFree,        \* header bytes 16..19 on disk
    rootPageID,     \* IndexFile.rootPageID
    order,          \* IndexFile.order / DiskTree.order
    firstFreePage,  \* IndexFile.firstFreePage
    isOpen,         \* the file handle is open
    stored,         \* reference map: the pairs inserted and not deleted since
    last,           \* the last public call and what it returned
    nops,           \* number of Insert and Delete calls made so far
    rowFile,        \* the bytes of the row file
    rowObj,         \* the rowFile object: firstFreePage, schemaCodes, columnCount
    rowOpen,        \* the row file handle is open
    rowLive,        \* reference: offset and values of the rows written and not freed since
    rowFreed,       \* reference: offset and span of the rows freed and not reused since
    rowLast,        \* the last row-file call and what it returned
    rowOps,         \* number of WriteRow and FreeRowAt calls made so far
    codecNode,      \* the node handed to IndexPageCodec.Encode
    codecBuf,       \* what Encode returned: payload bytes and error
    codecOut,       \* what Decode of the payload returned: node and error
    addrFile,       \* page-addressing check: the pages written so far, by page slot of the file
    addrHead,       \* page-addressing check: IndexFile.firstFreePage
    addrLast,       \* page-addressing check: the last call, its page id and node
    addrOps,        \* page-addressing check: number of calls made so far
    memNodes,       \* in-memory tree: the nodes allocated so far, memNodes[i] being the node behind pointer i
    memArrs,        \* in-memory tree: the backing arrays of the slices allocated so far
    memRoot,        \* in-memory tree: Tree.Root as a node pointer, 0 being nil
    memOrder,       \* in-memory tree: Tree.Order
    memLast,        \* in-memory tree: the last call, its key and what it returned
    memOps          \* in-memory tree: number of Insert and Delete calls made so far

treeVars == <<pages, hdrRoot, hdrOrder, hdrFree, rootPageID, order, firstFreePage, isOpen, stored, last, nops>>
rowVars == <<rowFile, rowObj, rowOpen, rowLive, rowFreed, rowLast, rowOps>>
codecVars == <<codecNode, codecBuf, codecOut>>
addrVars == <<addrFile, addrHead, addrLast, addrOps>>
memVars == <<memNodes, memArrs, memRoot, memOrder, memLast, memOps>>
vars == <<treeVars, rowVars, codecVars, addrVars, memVars>>

----------------------------------------------------------------------------
(* Bounds *)

MaxKey == 6
MaxOps == 10
MaxRowOps == 5

Keys == 1..MaxKey
Orders == {3, 4}

(* Program constants *)
HeaderSize == 512
PageSize == 4096
(* 2^32 \div PageSize: uint32(pageID) * PageSize wraps at this many pages *)
PageIdWrap == 1048576

NilKey == 0
NoErr == "nil"

ValueOf(k) == k + 100

Max2(a, b) == IF a > b THEN a ELSE b

----------------------------------------------------------------------------
(* Go slices: 0-based indices over TLA+ sequences *)

At(s, i) == s[i + 1]
Slice(s, lo, hi) == SubSeq(s, lo + 1, hi)

insertAt(slice, index, elem) ==
    IF index < 0 \/ index > Len(slice) THEN slice
    ELSE Slice(slice, 0, index) \o <<elem>> \o Slice(slice, index, Len(slice))

Reverse(s) == [i \in 1..Len(s) |-> s[Len(s) + 1 - i]]

removeAt(s, i) ==
    IF i < 0 \/ i >= Len(s) THEN s
    ELSE Slice(s, 0, i) \o Slice(s, i + 1, Len(s))

----------------------------------------------------------------------------
(* Nodes (tree.LeafNode, tree.IntermNode) *)

LeafNode(pairs, next, prev) ==
    [isLeaf |-> TRUE, Pairs |-> pairs, Keys |-> <<>>, Pointers |-> <<>>,
     nextPage |-> next, prevPage |-> prev]

IntermNode(keys, pointers) ==
    [isLeaf |-> FALSE, Pairs |-> <<>>, Keys |-> keys, Pointers |-> pointers,
     nextPage |-> 0, prevPage |-> 0]

LeafPair(k, v) == [K |-> k, Value |-> v]

(* Node codec: tag byte 1 = leaf, 0 = internal; a leaf carries its pairs   *)
(* and sibling page ids, an internal node its keys and child page ids.     *)
Encode(n) ==
    IF n.isLeaf
    THEN [tag |-> 1, count |-> Len(n.Pairs), pairs |-> n.Pairs, keys |-> <<>>,
          ptrs |-> <<>>, next |-> n.nextPage, prev |-> n.prevPage]
    ELSE [tag |-> 0, count |-> Len(n.Keys), pairs |-> <<>>, keys |-> n.Keys,
          ptrs |-> n.Pointers, next |-> 0, prev |-> 0]

Decode(b) ==
    IF b.tag = 1
    THEN LeafNode(Slice(b.pairs, 0, b.count), b.next, b.prev)
    ELSE IntermNode(Slice(b.keys, 0, b.count), b.ptrs)

ZeroPayload ==
    [tag |-> 0, count |-> 0, pairs |-> <<>>, keys |-> <<>>, ptrs |-> <<>>,
     next |-> 0, prev |-> 0]

ZeroPage == [deleted |-> 0, nextFree |-> 0, payload |-> ZeroPayload]

----------------------------------------------------------------------------
(* IndexFile.  An index-file state d is the record of the file contents    *)
(* (pages and header) and the in-memory fields of the IndexFile object.    *)

IdxState ==
    [pages |-> pages, hdrRoot |-> hdrRoot, hdrOrder |-> hdrOrder, hdrFree |-> hdrFree,
     rootPageID |-> rootPageID, order |-> order, firstFreePage |-> firstFreePage]

writeHeader(d) ==
    [d EXCEPT !.hdrRoot = d.rootPageID, !.hdrOrder = d.order, !.hdrFree = d.firstFreePage]

(* readHeader taking the root from the free-list field and the head from the root field *)
readHeader_swapped(d) ==
    [d EXCEPT !.rootPageID = d.hdrFree, !.order = d.hdrOrder, !.firstFreePage = d.hdrRoot]

readHeader(d) ==
    [d EXCEPT !.rootPageID = d.hdrRoot, !.order = d.hdrOrder, !.firstFreePage = d.hdrFree]

(* SetRoot changing the in-memory root only *)
SetRoot_noPersist(d, pageID) == [d EXCEPT !.rootPageID = pageID]

SetRoot(d, pageID) == writeHeader([d EXCEPT !.rootPageID = pageID])

(* (info.Size() - HeaderSize) / PageSize: the file ends after its last page *)
FilePages(d) == IF Len(d.pages) = 0 THEN 0 ELSE Len(d.pages) + 1

(* page slot addressed by writeNode/readNode: the product is taken in uint32 *)
nodeSlot(pageID) == pageID % PageIdWrap
(* page slot addressed by freePage/readFreeListPointer: the product is int64 *)
freeSlot(pageID) == pageID

(* WriteAt of one page at a slot; writing past the end extends the file *)
WriteSlot(ps, slot, pg) ==
    IF slot = 0 THEN ps
    ELSE [i \in 1..Max2(Len(ps), slot) |->
            IF i = slot THEN pg ELSE IF i <= Len(ps) THEN ps[i] ELSE ZeroPage]

SlotReadable(d, slot) == slot = 0 \/ slot <= Len(d.pages)
ReadSlot(d, slot) == IF slot = 0 THEN ZeroPage ELSE d.pages[slot]

readFreeListPointer(d, pageID) ==
    LET slot == freeSlot(pageID) IN
    IF ~SlotReadable(d, slot) THEN [next |-> 0, err |-> "io"]
    ELSE IF ReadSlot(d, slot).deleted = 0 THEN [next |-> 0, err |-> "page is not marked as free"]
    ELSE [next |-> ReadSlot(d, slot).nextFree, err |-> NoErr]

(* allocatePage taking the page count of the file as the next id, 0 included *)
allocatePage_noFloor(d) ==
    LET freeHead == d.firstFreePage IN
    IF freeHead # 0
    THEN LET r == readFreeListPointer(d, freeHead) IN
         IF r.err # NoErr THEN [d |-> d, id |-> 0, err |-> r.err]
         ELSE [d |-> writeHeader([d EXCEPT !.firstFreePage = r.next]),
               id |-> freeHead, err |-> NoErr]
    ELSE LET nextPageID == FilePages(d) IN
         [d |-> [d EXCEPT !.pages = WriteSlot(d.pages, nextPageID, ZeroPage)],
          id |-> nextPageID, err |-> NoErr]

(* allocatePage handing out the head of the free list and leaving it on *)
(* the list                                                             *)
allocatePage_headKept(d) ==
    LET freeHead == d.firstFreePage IN
    IF freeHead # 0
    THEN LET r == readFreeListPointer(d, freeHead) IN
         IF r.err # NoErr THEN [d |-> d, id |-> 0, err |-> r.err]
         ELSE [d |-> d, id |-> freeHead, err |-> NoErr]
    ELSE LET nextPageID == Max2(FilePages(d), 1) IN
         [d |-> [d EXCEPT !.pages = WriteSlot(d.pages, nextPageID, ZeroPage)],
          id |-> nextPageID, err |-> NoErr]

allocatePage(d) ==
    LET freeHead == d.firstFreePage IN
    IF freeHead # 0
    THEN LET r == readFreeListPointer(d, freeHead) IN
         IF r.err # NoErr THEN [d |-> d, id |-> 0, err |-> r.err]
         ELSE [d |-> writeHeader([d EXCEPT !.firstFreePage = r.next]),
               id |-> freeHead, err |-> NoErr]
    ELSE LET nextPageID == Max2(FilePages(d), 1) IN
         [d |-> [d EXCEPT !.pages = WriteSlot(d.pages, nextPageID, ZeroPage)],
          id |-> nextPageID, err |-> NoErr]

(* freePage writing 0 as the next-free pointer of the freed page *)
freePage_headNotLinked(d, pageID) ==
    LET buf == [deleted |-> 1, nextFree |-> 0, payload |-> ZeroPayload]
        d1 == [d EXCEPT !.pages = WriteSlot(d.pages, freeSlot(pageID), buf)]
    IN writeHeader([d1 EXCEPT !.firstFreePage = pageID])

(* freePage marking the page and leaving the head of the list where it was *)
freePage_headUnchanged(d, pageID) ==
    LET buf == [deleted |-> 1, nextFree |-> d.firstFreePage, payload |-> ZeroPayload]
    IN [d EXCEPT !.pages = WriteSlot(d.pages, freeSlot(pageID), buf)]

freePage(d, pageID) ==
    LET buf == [deleted |-> 1, nextFree |-> d.firstFreePage, payload |-> ZeroPayload]
        d1 == [d EXCEPT !.pages = WriteSlot(d.pages, freeSlot(pageID), buf)]
    IN writeHeader([d1 EXCEPT !.firstFreePage = pageID])

writeNode(d, node, pageID) ==
    LET buf == [deleted |-> 0, nextFree |-> 0, payload |-> Encode(node)] IN
    [d |-> [d EXCEPT !.pages = WriteSlot(d.pages, nodeSlot(pageID), buf)], err |-> NoErr]

readNode(d, pageID) ==
    LET slot == nodeSlot(pageID) IN
    IF ~SlotReadable(d, slot) THEN [node |-> IntermNode(<<>>, <<>>), err |-> "failed to read page"]
    ELSE IF ReadSlot(d, slot).deleted # 0
         THEN [node |-> IntermNode(<<>>, <<>>), err |-> "page is marked deleted"]
    ELSE [node |-> Decode(ReadSlot(d, slot).payload), err |-> NoErr]

----------------------------------------------------------------------------
(* DiskTree: binary searches *)

RECURSIVE lubLoop(_, _, _, _)
lubLoop(key, pairs, left, right) ==
    IF left < right
    THEN LET mid == left + ((right - left) \div 2) IN
         IF At(pairs, mid).K < key
         THEN lubLoop(key, pairs, mid + 1, right)
         ELSE lubLoop(key, pairs, left, mid)
    ELSE left

(* first index whose key is >= key *)
leafUpperBound(key, pairs) == lubLoop(key, pairs, 0, Len(pairs))

RECURSIVE ubLoop(_, _, _, _)
ubLoop(key, keys, left, right) ==
    IF left < right
    THEN LET mid == left + ((right - left) \div 2) IN
         IF ~(key < At(keys, mid))
         THEN ubLoop(key, keys, mid + 1, right)
         ELSE ubLoop(key, keys, left, mid)
    ELSE left

(* first index with keys[i] > key *)
upperBound(key, keys) == ubLoop(key, keys, 0, Len(keys))

RECURSIVE lbsLoop(_, _, _, _)
lbsLoop(key, pairs, left, right) ==
    IF left <= right
    THEN LET mid == left + ((right - left) \div 2) IN
         IF At(pairs, mid).K = key THEN mid
         ELSE IF At(pairs, mid).K < key
              THEN lbsLoop(key, pairs, mid + 1, right)
              ELSE lbsLoop(key, pairs, left, mid - 1)
    ELSE -1

leafBinarySearch(key, pairs) == lbsLoop(key, pairs, 0, Len(pairs) - 1)

----------------------------------------------------------------------------
(* DiskTree.Insert *)

InsRes(d, pk, rp, err) == [d |-> d, promotedKey |-> pk, newRightPageID |-> rp, err |-> err]

createFirstRoot(d, key, value) ==
    LET leaf == LeafNode(<<LeafPair(key, value)>>, 0, 0)
        a == allocatePage(d)
    IN IF a.err # NoErr THEN [d |-> a.d, err |-> a.err]
       ELSE LET w == writeNode(a.d, leaf, a.id) IN
            IF w.err # NoErr THEN [d |-> w.d, err |-> w.err]
            ELSE [d |-> SetRoot(w.d, a.id), err |-> NoErr]

createNewRoot(d, promotedKey, leftPageID, rightPageID) ==
    LET interm == IntermNode(<<promotedKey>>, <<leftPageID, rightPageID>>)
        a == allocatePage(d)
    IN IF a.err # NoErr THEN [d |-> a.d, err |-> a.err]
       ELSE LET w == writeNode(a.d, interm, a.id) IN
            IF w.err # NoErr THEN [d |-> w.d, err |-> w.err]
            ELSE [d |-> SetRoot(w.d, a.id), err |-> NoErr]

(* the split branch of insertIntoLeaf splitting at the size halved and rounded up *)
splitLeaf_roundUp(d, leaf, newSlice, pageID) ==
    LET splitIndex == (Len(newSlice) + 1) \div 2
        rightPairs == Slice(newSlice, splitIndex, Len(newSlice))
        a == allocatePage(d)
    IN IF a.err # NoErr THEN InsRes(a.d, NilKey, 0, a.err)
       ELSE
       LET rightLeaf == LeafNode(rightPairs, leaf.nextPage, pageID)
           leftLeaf == [leaf EXCEPT !.Pairs = Slice(newSlice, 0, splitIndex), !.nextPage = a.id]
           nx == IF rightLeaf.nextPage # 0 THEN readNode(a.d, rightLeaf.nextPage)
                 ELSE [node |-> leaf, err |-> NoErr]
       IN IF nx.err # NoErr THEN InsRes(a.d, NilKey, 0, nx.err)
          ELSE
          LET d1 == IF rightLeaf.nextPage # 0 /\ nx.node.isLeaf
                    THEN writeNode(a.d, [nx.node EXCEPT !.prevPage = a.id],
                                   rightLeaf.nextPage).d
                    ELSE a.d
              d2 == writeNode(d1, leftLeaf, pageID).d
          IN InsRes(writeNode(d2, rightLeaf, a.id).d, At(rightPairs, 0).K, a.id, NoErr)

(* the split branch of insertIntoLeaf, from "Split" on *)
splitLeaf(d, leaf, newSlice, pageID) ==
    LET splitIndex == Len(newSlice) \div 2
        leftPairs == Slice(newSlice, 0, splitIndex)
        rightPairs == Slice(newSlice, splitIndex, Len(newSlice))
        a == allocatePage(d)
    IN IF a.err # NoErr THEN InsRes(a.d, NilKey, 0, a.err)
       ELSE
       LET rightPageID == a.id
           rightLeaf == LeafNode(rightPairs, leaf.nextPage, pageID)
           leftLeaf == [leaf EXCEPT !.Pairs = leftPairs, !.nextPage = rightPageID]
           nx == IF rightLeaf.nextPage # 0 THEN readNode(a.d, rightLeaf.nextPage)
                 ELSE [node |-> leaf, err |-> NoErr]
       IN IF nx.err # NoErr THEN InsRes(a.d, NilKey, 0, nx.err)
          ELSE
          LET d1 == IF rightLeaf.nextPage # 0 /\ nx.node.isLeaf
                    THEN writeNode(a.d, [nx.node EXCEPT !.prevPage = rightPageID],
                                   rightLeaf.nextPage).d
                    ELSE a.d
              d2 == writeNode(d1, leftLeaf, pageID).d
              d3 == writeNode(d2, rightLeaf, rightPageID).d
          IN InsRes(d3, At(rightPairs, 0).K, rightPageID, NoErr)

insertIntoLeaf(d, key, value, node, pageID) ==
    IF ~node.isLeaf THEN InsRes(d, NilKey, 0, "expected leaf node")
    ELSE
    LET leaf == node
        index == leafUpperBound(key, leaf.Pairs)
    IN IF index < Len(leaf.Pairs) /\ At(leaf.Pairs, index).K = key
       THEN InsRes(d, NilKey, 0, "duplicate key")
       ELSE
       LET newSlice == insertAt(leaf.Pairs, index, LeafPair(key, value)) IN
       IF Len(newSlice) < d.order
       THEN LET w == writeNode(d, [leaf EXCEPT !.Pairs = newSlice], pageID)
            IN InsRes(w.d, NilKey, 0, w.err)
       ELSE splitLeaf(d, leaf, newSlice, pageID)

(* insertIntoInternal after the recursive call returned a promoted key *)
insertPromoted(d, interm, pageID, childIndex, promotedKey, newRightPageID) ==
    LET keys == insertAt(interm.Keys, childIndex, promotedKey)
        ptrs == insertAt(interm.Pointers, childIndex + 1, newRightPageID)
    IN IF Len(keys) < d.order
       THEN LET w == writeNode(d, IntermNode(keys, ptrs), pageID)
            IN InsRes(w.d, NilKey, 0, w.err)
       ELSE
       LET splitIndex == (d.order - 1) \div 2
           midKey == At(keys, splitIndex)
           rightKeys == Slice(keys, splitIndex + 1, Len(keys))
           rightPointers == Slice(ptrs, splitIndex + 1, Len(ptrs))
           w1 == writeNode(d, IntermNode(Slice(keys, 0, splitIndex),
                                         Slice(ptrs, 0, splitIndex + 1)), pageID)
           a == allocatePage(w1.d)
       IN IF a.err # NoErr THEN InsRes(a.d, NilKey, 0, a.err)
          ELSE LET w2 == writeNode(a.d, IntermNode(rightKeys, rightPointers), a.id)
               IN InsRes(w2.d, midKey, a.id, w2.err)

RECURSIVE insertRecursive(_, _, _, _, _)
insertIntoInternal(d, key, value, node, pageID) ==
    IF node.isLeaf THEN InsRes(d, NilKey, 0, "expected internal node")
    ELSE
    LET interm == node
        childIndex == upperBound(key, interm.Keys)
    IN IF childIndex >= Len(interm.Pointers) THEN InsRes(d, NilKey, 0, "invalid child index")
       ELSE
       LET childPageID == At(interm.Pointers, childIndex)
           c == readNode(d, childPageID)
       IN IF c.err # NoErr THEN InsRes(d, NilKey, 0, c.err)
          ELSE
          LET r == insertRecursive(d, key, value, c.node, childPageID) IN
          IF r.err # NoErr THEN InsRes(r.d, NilKey, 0, r.err)
          ELSE IF r.promotedKey = NilKey /\ r.newRightPageID = 0
               THEN InsRes(r.d, NilKey, 0, NoErr)
          ELSE insertPromoted(r.d, interm, pageID, childIndex, r.promotedKey, r.newRightPageID)

insertRecursive(d, key, value, node, pageID) ==
    IF node.isLeaf
    THEN insertIntoLeaf(d, key, value, node, pageID)
    ELSE insertIntoInternal(d, key, value, node, pageID)

DiskTreeInsert(d, key, value) ==
    LET rootID == d.rootPageID IN
    IF rootID = 0 THEN createFirstRoot(d, key, value)
    ELSE
    LET root == readNode(d, rootID) IN
    IF root.err # NoErr THEN [d |-> d, err |-> root.err]
    ELSE
    LET r == insertRecursive(d, key, value, root.node, rootID) IN
    IF r.err # NoErr THEN [d |-> r.d, err |-> r.err]
    ELSE IF r.promotedKey = NilKey /\ r.newRightPageID = 0 THEN [d |-> r.d, err |-> NoErr]
    ELSE createNewRoot(r.d, r.promotedKey, rootID, r.newRightPageID)

----------------------------------------------------------------------------
(* DiskTree.Search *)

RECURSIVE dfs(_, _, _)
dfs(d, key, node) ==
    IF ~node.isLeaf
    THEN LET index == upperBound(key, node.Keys) IN
         IF index >= Len(node.Pointers)
         THEN [value |-> 0, err |-> "invalid child index in internal node"]
         ELSE LET c == readNode(d, At(node.Pointers, index)) IN
              IF c.err # NoErr THEN [value |-> 0, err |-> "failed to load child node"]
              ELSE dfs(d, key, c.node)
    ELSE LET ind == leafBinarySearch(key, node.Pairs) IN
         IF ind = -1 THEN [value |-> 0, err |-> "key not found"]
         ELSE [value |-> At(node.Pairs, ind).Value, err |-> NoErr]

Search(d, key) ==
    IF d.rootPageID = 0 THEN [value |-> 0, err |-> "tree is empty"]
    ELSE LET root == readNode(d, d.rootPageID) IN
         IF root.err # NoErr THEN [value |-> 0, err |-> "failed to load root node"]
         ELSE dfs(d, key, root.node)

----------------------------------------------------------------------------
(* DiskTree.Delete *)

minKeys(d) == (d.order - 1) \div 2

(* canBorrowFrom with >= in place of >: a sibling at the minimum lends *)
canBorrowFrom_atMin(d, pageID) ==
    LET n == readNode(d, pageID) IN
    IF n.err # NoErr THEN FALSE
    ELSE IF n.node.isLeaf THEN Len(n.node.Pairs) >= minKeys(d)
    ELSE Len(n.node.Keys) >= minKeys(d)

canBorrowFrom(d, pageID) ==
    LET n == readNode(d, pageID) IN
    IF n.err # NoErr THEN FALSE
    ELSE IF n.node.isLeaf THEN Len(n.node.Pairs) > minKeys(d)
    ELSE Len(n.node.Keys) > minKeys(d)

(* borrow and merge return the index-file state, the parent as modified in memory, and the error *)
ParRes(d, parent, err) == [d |-> d, parent |-> parent, err |-> err]

setKey(parent, i, k) == [parent EXCEPT !.Keys = [parent.Keys EXCEPT ![i + 1] = k]]

borrowFromLeft(d, parent, parentPageID, childIndex) ==
    LET leftPageID == At(parent.Pointers, childIndex - 1)
        childPageID == At(parent.Pointers, childIndex)
        l == readNode(d, leftPageID)
        c == readNode(d, childPageID)
    IN IF l.err # NoErr THEN ParRes(d, parent, l.err)
       ELSE IF c.err # NoErr THEN ParRes(d, parent, c.err)
       ELSE IF l.node.isLeaf
       THEN LET leftLeaf == l.node
                childLeaf == c.node
                borrowed == At(leftLeaf.Pairs, Len(leftLeaf.Pairs) - 1)
                left2 == [leftLeaf EXCEPT !.Pairs = Slice(leftLeaf.Pairs, 0, Len(leftLeaf.Pairs) - 1)]
                child2 == [childLeaf EXCEPT !.Pairs = insertAt(childLeaf.Pairs, 0, borrowed)]
                parent2 == setKey(parent, childIndex - 1, At(child2.Pairs, 0).K)
                d1 == writeNode(d, left2, leftPageID).d
                d2 == writeNode(d1, child2, childPageID).d
            IN ParRes(d2, parent2, NoErr)
       ELSE LET leftInterm == l.node
                childInterm == c.node
                bKey == At(leftInterm.Keys, Len(leftInterm.Keys) - 1)
                bPtr == At(leftInterm.Pointers, Len(leftInterm.Pointers) - 1)
                left2 == IntermNode(Slice(leftInterm.Keys, 0, Len(leftInterm.Keys) - 1),
                                    Slice(leftInterm.Pointers, 0, Len(leftInterm.Pointers) - 1))
                child2 == IntermNode(insertAt(childInterm.Keys, 0, bKey),
                                     insertAt(childInterm.Pointers, 0, bPtr))
                parent2 == setKey(parent, childIndex - 1, bKey)
                d1 == writeNode(d, left2, leftPageID).d
                d2 == writeNode(d1, child2, childPageID).d
            IN ParRes(d2, parent2, NoErr)

(* borrowFromRight leaving the parent separator of a leaf borrow as it was *)
borrowFromRight_staleSeparator(d, parent, parentPageID, childIndex) ==
    LET rightPageID == At(parent.Pointers, childIndex + 1)
        childPageID == At(parent.Pointers, childIndex)
        r == readNode(d, rightPageID)
        c == readNode(d, childPageID)
    IN IF r.err # NoErr THEN ParRes(d, parent, r.err)
       ELSE IF c.err # NoErr THEN ParRes(d, parent, c.err)
       ELSE IF r.node.isLeaf
       THEN LET right2 == [r.node EXCEPT !.Pairs = Slice(r.node.Pairs, 1, Len(r.node.Pairs))]
                child2 == [c.node EXCEPT !.Pairs = Append(c.node.Pairs, At(r.node.Pairs, 0))]
                d1 == writeNode(d, right2, rightPageID).d
                d2 == writeNode(d1, child2, childPageID).d
            IN ParRes(d2, parent, NoErr)
       ELSE LET right2 == IntermNode(Slice(r.node.Keys, 1, Len(r.node.Keys)),
                                     Slice(r.node.Pointers, 1, Len(r.node.Pointers)))
                child2 == IntermNode(Append(c.node.Keys, At(r.node.Keys, 0)),
                                     Append(c.node.Pointers, At(r.node.Pointers, 0)))
                parent2 == IF Len(right2.Keys) > 0
                           THEN setKey(parent, childIndex, At(right2.Keys, 0))
                           ELSE parent
                d1 == writeNode(d, right2, rightPageID).d
                d2 == writeNode(d1, child2, childPageID).d
            IN ParRes(d2, parent2, NoErr)

borrowFromRight(d, parent, parentPageID, childIndex) ==
    LET rightPageID == At(parent.Pointers, childIndex + 1)
        childPageID == At(parent.Pointers, childIndex)
        r == readNode(d, rightPageID)
        c == readNode(d, childPageID)
    IN IF r.err # NoErr THEN ParRes(d, parent, r.err)
       ELSE IF c.err # NoErr THEN ParRes(d, parent, c.err)
       ELSE IF r.node.isLeaf
       THEN LET rightLeaf == r.node
                childLeaf == c.node
                borrowed == At(rightLeaf.Pairs, 0)
                right2 == [rightLeaf EXCEPT !.Pairs = Slice(rightLeaf.Pairs, 1, Len(rightLeaf.Pairs))]
                child2 == [childLeaf EXCEPT !.Pairs = Append(childLeaf.Pairs, borrowed)]
                parent2 == IF Len(right2.Pairs) > 0
                           THEN setKey(parent, childIndex, At(right2.Pairs, 0).K)
                           ELSE parent
                d1 == writeNode(d, right2, rightPageID).d
                d2 == writeNode(d1, child2, childPageID).d
            IN ParRes(d2, parent2, NoErr)
       ELSE LET rightInterm == r.node
                childInterm == c.node
                bKey == At(rightInterm.Keys, 0)
                bPtr == At(rightInterm.Pointers, 0)
                right2 == IntermNode(Slice(rightInterm.Keys, 1, Len(rightInterm.Keys)),
                                     Slice(rightInterm.Pointers, 1, Len(rightInterm.Pointers)))
                child2 == IntermNode(Append(childInterm.Keys, bKey),
                                     Append(childInterm.Pointers, bPtr))
                parent2 == IF Len(right2.Keys) > 0
                           THEN setKey(parent, childIndex, At(right2.Keys, 0))
                           ELSE parent
                d1 == writeNode(d, right2, rightPageID).d
                d2 == writeNode(d1, child2, childPageID).d
            IN ParRes(d2, parent2, NoErr)

(* "fix linked list pointers": the leaf after the consumed one gets prev = survivor; *)
(* a failed read and a failed write are both ignored                                  *)
fixNextPrev(d, nextPageID, survivorPageID) ==
    IF nextPageID = 0 THEN d
    ELSE LET nx == readNode(d, nextPageID) IN
         IF nx.err = NoErr /\ nx.node.isLeaf
         THEN writeNode(d, [nx.node EXCEPT !.prevPage = survivorPageID], nextPageID).d
         ELSE d

(* mergeLeft leaving the consumed page off the free list *)
mergeLeft_noFree(d, parent, parentPageID, childIndex) ==
    LET leftPageID == At(parent.Pointers, childIndex - 1)
        childPageID == At(parent.Pointers, childIndex)
        l == readNode(d, leftPageID)
        c == readNode(d, childPageID)
    IN IF l.err # NoErr THEN ParRes(d, parent, l.err)
       ELSE IF c.err # NoErr THEN ParRes(d, parent, c.err)
       ELSE IF l.node.isLeaf
       THEN LET left2 == [l.node EXCEPT !.Pairs = l.node.Pairs \o c.node.Pairs,
                                        !.nextPage = c.node.nextPage]
                d1 == fixNextPrev(d, c.node.nextPage, leftPageID)
                d2 == writeNode(d1, left2, leftPageID).d
            IN ParRes(writeNode(d2, c.node, childPageID).d, parent, NoErr)
       ELSE LET left2 == IntermNode((Append(l.node.Keys, At(parent.Keys, childIndex - 1)))
                                        \o c.node.Keys,
                                    l.node.Pointers \o c.node.Pointers)
                d1 == writeNode(d, left2, leftPageID).d
            IN ParRes(writeNode(d1, c.node, childPageID).d, parent, NoErr)

mergeLeft(d, parent, parentPageID, childIndex) ==
    LET leftPageID == At(parent.Pointers, childIndex - 1)
        childPageID == At(parent.Pointers, childIndex)
        l == readNode(d, leftPageID)
        c == readNode(d, childPageID)
    IN IF l.err # NoErr THEN ParRes(d, parent, l.err)
       ELSE IF c.err # NoErr THEN ParRes(d, parent, c.err)
       ELSE IF l.node.isLeaf
       THEN LET childLeaf == c.node
                left2 == [l.node EXCEPT !.Pairs = l.node.Pairs \o childLeaf.Pairs,
                                        !.nextPage = childLeaf.nextPage]
                d1 == fixNextPrev(d, childLeaf.nextPage, leftPageID)
                d2 == writeNode(d1, left2, leftPageID).d
                d3 == writeNode(d2, childLeaf, childPageID).d
            IN ParRes(freePage(d3, childPageID), parent, NoErr)
       ELSE LET childInterm == c.node
                separator == At(parent.Keys, childIndex - 1)
                left2 == IntermNode((Append(l.node.Keys, separator)) \o childInterm.Keys,
                                    l.node.Pointers \o childInterm.Pointers)
                d1 == writeNode(d, left2, leftPageID).d
                d2 == writeNode(d1, childInterm, childPageID).d
            IN ParRes(freePage(d2, childPageID), parent, NoErr)

mergeRight(d, parent, parentPageID, childIndex) ==
    LET childPageID == At(parent.Pointers, childIndex)
        rightPageID == At(parent.Pointers, childIndex + 1)
        c == readNode(d, childPageID)
        r == readNode(d, rightPageID)
    IN IF c.err # NoErr THEN ParRes(d, parent, c.err)
       ELSE IF r.err # NoErr THEN ParRes(d, parent, r.err)
       ELSE IF c.node.isLeaf
       THEN LET rightLeaf == r.node
                child2 == [c.node EXCEPT !.Pairs = c.node.Pairs \o rightLeaf.Pairs,
                                         !.nextPage = rightLeaf.nextPage]
                d1 == fixNextPrev(d, rightLeaf.nextPage, childPageID)
                d2 == writeNode(d1, child2, childPageID).d
                d3 == writeNode(d2, rightLeaf, rightPageID).d
            IN ParRes(freePage(d3, rightPageID), parent, NoErr)
       ELSE LET rightInterm == r.node
                separator == At(parent.Keys, childIndex)
                child2 == IntermNode((Append(c.node.Keys, separator)) \o rightInterm.Keys,
                                     c.node.Pointers \o rightInterm.Pointers)
                d1 == writeNode(d, child2, childPageID).d
                d2 == writeNode(d1, rightInterm, rightPageID).d
            IN ParRes(freePage(d2, rightPageID), parent, NoErr)

DelRes(d, underflow, err) == [d |-> d, underflow |-> underflow, err |-> err]

(* handleUnderflow after a merge: the separator at keyIndex and the pointer  *)
(* at ptrIndex leave the parent, the parent is written back, and its own    *)
(* underflow is reported                                                    *)
shrinkParent(m, d, nodePageID, keyIndex, ptrIndex) ==
    IF m.err # NoErr THEN DelRes(m.d, FALSE, m.err)
    ELSE LET node2 == [m.parent EXCEPT !.Keys = removeAt(m.parent.Keys, keyIndex),
                                       !.Pointers = removeAt(m.parent.Pointers, ptrIndex)]
         IN DelRes(writeNode(m.d, node2, nodePageID).d, Len(node2.Keys) < minKeys(d), NoErr)

(* the merge part of handleUnderflow removing the survivor's pointer slot *)
(* instead of the consumed node's                                        *)
mergeAndShrink_wrongSlot(d, node, nodePageID, childIndex) ==
    IF childIndex > 0
    THEN shrinkParent(mergeLeft(d, node, nodePageID, childIndex), d, nodePageID,
                      childIndex - 1, childIndex - 1)
    ELSE IF childIndex < Len(node.Pointers) - 1
    THEN shrinkParent(mergeRight(d, node, nodePageID, childIndex), d, nodePageID,
                      childIndex, childIndex)
    ELSE DelRes(d, FALSE, "no sibling to merge with; inconsistent state")

(* the merge part of handleUnderflow ("can't borrow -> merge") *)
mergeAndShrink(d, node, nodePageID, childIndex) ==
    IF childIndex > 0
    THEN shrinkParent(mergeLeft(d, node, nodePageID, childIndex), d, nodePageID,
                      childIndex - 1, childIndex)
    ELSE IF childIndex < Len(node.Pointers) - 1
    THEN shrinkParent(mergeRight(d, node, nodePageID, childIndex), d, nodePageID,
                      childIndex, childIndex + 1)
    ELSE DelRes(d, FALSE, "no sibling to merge with; inconsistent state")

(* handleUnderflow after a borrow: "persist parent" *)
persistParent(b, nodePageID) ==
    IF b.err # NoErr THEN DelRes(b.d, FALSE, b.err)
    ELSE DelRes(writeNode(b.d, b.parent, nodePageID).d, FALSE, NoErr)

(* handleUnderflow trying the right sibling before the left one *)
handleUnderflow_rightFirst(d, node, nodePageID, childIndex) ==
    IF childIndex < Len(node.Pointers) - 1 /\ canBorrowFrom(d, At(node.Pointers, childIndex + 1))
    THEN persistParent(borrowFromRight(d, node, nodePageID, childIndex), nodePageID)
    ELSE IF childIndex > 0 /\ canBorrowFrom(d, At(node.Pointers, childIndex - 1))
    THEN persistParent(borrowFromLeft(d, node, nodePageID, childIndex), nodePageID)
    ELSE mergeAndShrink(d, node, nodePageID, childIndex)

handleUnderflow(d, node, nodePageID, childIndex) ==
    IF childIndex > 0 /\ canBorrowFrom(d, At(node.Pointers, childIndex - 1))
    THEN persistParent(borrowFromLeft(d, node, nodePageID, childIndex), nodePageID)
    ELSE IF childIndex < Len(node.Pointers) - 1 /\ canBorrowFrom(d, At(node.Pointers, childIndex + 1))
    THEN persistParent(borrowFromRight(d, node, nodePageID, childIndex), nodePageID)
    ELSE mergeAndShrink(d, node, nodePageID, childIndex)

(* deleteFromLeaf cutting the leaf at the key: the pairs after it go too *)
deleteFromLeaf_cutsTail(d, key, leaf, pageID) ==
    LET index == leafBinarySearch(key, leaf.Pairs) IN
    IF index = -1 THEN DelRes(d, FALSE, NoErr)
    ELSE LET leaf2 == [leaf EXCEPT !.Pairs = Slice(leaf.Pairs, 0, index)]
             w == writeNode(d, leaf2, pageID)
         IN DelRes(w.d, Len(leaf2.Pairs) < minKeys(d), w.err)

deleteFromLeaf(d, key, leaf, pageID) ==
    LET index == leafBinarySearch(key, leaf.Pairs) IN
    IF index = -1 THEN DelRes(d, FALSE, NoErr)
    ELSE LET leaf2 == [leaf EXCEPT !.Pairs = removeAt(leaf.Pairs, index)]
             w == writeNode(d, leaf2, pageID)
         IN DelRes(w.d, Len(leaf2.Pairs) < minKeys(d), w.err)

(* deleteFromInternal after the recursive call returned c *)
afterChildDelete(c, interm, pageID, childIndex) ==
    IF c.err # NoErr THEN DelRes(c.d, FALSE, c.err)
    ELSE IF ~c.underflow THEN DelRes(c.d, FALSE, NoErr)
    ELSE handleUnderflow(c.d, interm, pageID, childIndex)

RECURSIVE deleteRecursive(_, _, _)
(* deleteFromInternal refusing the last child as an invalid index *)
deleteFromInternal_lastChildRefused(d, key, interm, pageID) ==
    LET childIndex == upperBound(key, interm.Keys) IN
    IF childIndex >= Len(interm.Pointers) - 1 THEN DelRes(d, FALSE, "invalid child index")
    ELSE afterChildDelete(deleteRecursive(d, key, At(interm.Pointers, childIndex)),
                          interm, pageID, childIndex)

deleteFromInternal(d, key, interm, pageID) ==
    LET childIndex == upperBound(key, interm.Keys) IN
    IF childIndex >= Len(interm.Pointers) THEN DelRes(d, FALSE, "invalid child index")
    ELSE afterChildDelete(deleteRecursive(d, key, At(interm.Pointers, childIndex)),
                          interm, pageID, childIndex)

deleteRecursive(d, key, pageID) ==
    LET n == readNode(d, pageID) IN
    IF n.err # NoErr THEN DelRes(d, FALSE, n.err)
    ELSE IF n.node.isLeaf THEN deleteFromLeaf(d, key, n.node, pageID)
    ELSE deleteFromInternal(d, key, n.node, pageID)

(* "Handle root underflow" resetting the root id to 0 when the root is a leaf left *)
(* without pairs                                                                  *)
collapseRoot_zeroOnEmptyLeaf(d, rootID) ==
    LET rootNode == readNode(d, rootID) IN
    IF rootNode.err # NoErr THEN [d |-> d, err |-> rootNode.err]
    ELSE IF ~rootNode.node.isLeaf /\ Len(rootNode.node.Keys) = 0 /\ Len(rootNode.node.Pointers) = 1
         THEN [d |-> freePage(SetRoot(d, At(rootNode.node.Pointers, 0)), rootID), err |-> NoErr]
         ELSE IF rootNode.node.isLeaf /\ Len(rootNode.node.Pairs) = 0
         THEN [d |-> freePage(SetRoot(d, 0), rootID), err |-> NoErr]
         ELSE [d |-> d, err |-> NoErr]

(* "Handle root underflow" promoting the only child without freeing the old root *)
collapseRoot_noFree(d, rootID) ==
    LET rootNode == readNode(d, rootID) IN
    IF rootNode.err # NoErr THEN [d |-> d, err |-> rootNode.err]
    ELSE IF ~rootNode.node.isLeaf /\ Len(rootNode.node.Keys) = 0 /\ Len(rootNode.node.Pointers) = 1
         THEN [d |-> SetRoot(d, At(rootNode.node.Pointers, 0)), err |-> NoErr]
         ELSE [d |-> d, err |-> NoErr]

(* "Handle root underflow" of Delete *)
collapseRoot(d, rootID) ==
    LET rootNode == readNode(d, rootID) IN
    IF rootNode.err # NoErr THEN [d |-> d, err |-> rootNode.err]
    ELSE IF ~rootNode.node.isLeaf /\ Len(rootNode.node.Keys) = 0 /\ Len(rootNode.node.Pointers) = 1
         THEN [d |-> freePage(SetRoot(d, At(rootNode.node.Pointers, 0)), rootID), err |-> NoErr]
         ELSE [d |-> d, err |-> NoErr]

(* Delete after deleteRecursive returned r *)
afterRootDelete(r, rootID) ==
    IF r.err # NoErr THEN [d |-> r.d, err |-> r.err]
    ELSE IF r.underflow THEN collapseRoot(r.d, rootID)
    ELSE [d |-> r.d, err |-> NoErr]

(* Delete without the Search pre-check *)
DiskTreeDelete_noPrecheck(d, key) ==
    LET rootID == d.rootPageID IN
    IF rootID = 0 THEN [d |-> d, err |-> "tree is empty"]
    ELSE afterRootDelete(deleteRecursive(d, key, rootID), rootID)

DiskTreeDelete(d, key) ==
    LET rootID == d.rootPageID IN
    IF rootID = 0 THEN [d |-> d, err |-> "tree is empty"]
    ELSE LET s == Search(d, key) IN
         IF s.err # NoErr THEN [d |-> d, err |-> s.err]
         ELSE afterRootDelete(deleteRecursive(d, key, rootID), rootID)

----------------------------------------------------------------------------
(* DiskTree.RangeSearch *)

RECURSIVE findLeftmostLeaf(_, _)
findLeftmostLeaf(d, node) ==
    IF node.isLeaf THEN [node |-> node, err |-> NoErr]
    ELSE IF Len(node.Pointers) = 0 THEN [node |-> node, err |-> "internal node has no children"]
    ELSE LET c == readNode(d, At(node.Pointers, 0)) IN
         IF c.err # NoErr THEN [node |-> node, err |-> "failed to load leftmost child"]
         ELSE findLeftmostLeaf(d, c.node)

(* the inner loop over currentLeaf.Pairs from index i: done = the early return was taken *)
RECURSIVE scanPairs(_, _, _, _, _)
scanPairs(prs, i, startKey, endKey, results) ==
    IF i >= Len(prs) THEN [results |-> results, done |-> FALSE]
    ELSE LET pair == At(prs, i)
             res2 == IF ~(pair.K < startKey) /\ pair.K < endKey
                     THEN Append(results, pair) ELSE results
         IN IF ~(pair.K < endKey) THEN [results |-> res2, done |-> TRUE]
            ELSE scanPairs(prs, i + 1, startKey, endKey, res2)

(* the outer loop over the leaf chain; visited bounds the walk on a cyclic chain *)
RECURSIVE scanLeaves(_, _, _, _, _, _)
scanLeaves(d, currentLeaf, startKey, endKey, results, visited) ==
    LET sp == scanPairs(currentLeaf.Pairs, 0, startKey, endKey, results) IN
    IF sp.done THEN [results |-> sp.results, err |-> NoErr]
    ELSE IF currentLeaf.nextPage = 0 THEN [results |-> sp.results, err |-> NoErr]
    ELSE IF visited > Len(d.pages) THEN [results |-> sp.results, err |-> "does not terminate"]
    ELSE LET nx == readNode(d, currentLeaf.nextPage) IN
         IF nx.err # NoErr THEN [results |-> <<>>, err |-> "failed to load next leaf"]
         ELSE IF ~nx.node.isLeaf THEN [results |-> <<>>, err |-> "expected leaf node"]
         ELSE scanLeaves(d, nx.node, startKey, endKey, sp.results, visited + 1)

RangeSearch(d, startKey, endKey) ==
    IF d.rootPageID = 0 THEN [results |-> <<>>, err |-> "tree is empty"]
    ELSE LET root == readNode(d, d.rootPageID) IN
         IF root.err # NoErr THEN [results |-> <<>>, err |-> "failed to load root node"]
         ELSE LET lm == findLeftmostLeaf(d, root.node) IN
              IF lm.err # NoErr THEN [results |-> <<>>, err |-> lm.err]
              ELSE scanLeaves(d, lm.node, startKey, endKey, <<>>, 0)

----------------------------------------------------------------------------
(* DiskTree.Min, DiskTree.Max *)

RECURSIVE findRightmostLeaf(_, _)
findRightmostLeaf(d, node) ==
    IF node.isLeaf THEN [node |-> node, err |-> NoErr]
    ELSE IF Len(node.Pointers) = 0 THEN [node |-> node, err |-> "internal node has no children"]
    ELSE LET c == readNode(d, At(node.Pointers, Len(node.Pointers) - 1)) IN
         IF c.err # NoErr THEN [node |-> node, err |-> "failed to load rightmost child"]
         ELSE findRightmostLeaf(d, c.node)

PairRes(pair, err) == [pair |-> pair, err |-> err]

NoPair == LeafPair(NilKey, 0)

Min(d) ==
    IF d.rootPageID = 0 THEN PairRes(NoPair, "tree is empty")
    ELSE LET root == readNode(d, d.rootPageID) IN
         IF root.err # NoErr THEN PairRes(NoPair, "failed to load root node")
         ELSE LET lm == findLeftmostLeaf(d, root.node) IN
              IF lm.err # NoErr THEN PairRes(NoPair, lm.err)
              ELSE IF Len(lm.node.Pairs) = 0 THEN PairRes(NoPair, "leftmost leaf is empty")
              ELSE PairRes(At(lm.node.Pairs, 0), NoErr)

Max(d) ==
    IF d.rootPageID = 0 THEN PairRes(NoPair, "tree is empty")
    ELSE LET root == readNode(d, d.rootPageID) IN
         IF root.err # NoErr THEN PairRes(NoPair, "failed to load root node")
         ELSE LET rm == findRightmostLeaf(d, root.node) IN
              IF rm.err # NoErr THEN PairRes(NoPair, rm.err)
              ELSE IF Len(rm.node.Pairs) = 0 THEN PairRes(NoPair, "rightmost leaf is empty")
              ELSE PairRes(At(rm.node.Pairs, Len(rm.node.Pairs) - 1), NoErr)

----------------------------------------------------------------------------
(* Row file (data/rowFileHandler.go, data/rowCodec.go).                     *)
(* A byte string ([]byte, the file contents, a Go string) is a sequence of  *)
(* runs [b |-> byte, n |-> count], n > 0, neighbouring runs of different b. *)

DataHeaderSize == 4096
SchemaReserve == 1000
MaxUint16 == 65535
FreeMarker == 65535

TypeCodeInt == 1
TypeCodeFloat == 2
TypeCodeString == 3

Run(b, n) == [b |-> b, n |-> n]

(* the two halves of a sequence of runs *)
FirstHalf(rs) == SubSeq(rs, 1, Len(rs) \div 2)
SecondHalf(rs) == SubSeq(rs, Len(rs) \div 2 + 1, Len(rs))

(* len(buf) *)
RECURSIVE RunLen(_)
RunLen(rs) ==
    IF Len(rs) = 0 THEN 0
    ELSE IF Len(rs) = 1 THEN rs[1].n
    ELSE RunLen(FirstHalf(rs)) + RunLen(SecondHalf(rs))

(* rs with the run r in front, kept in normal form *)
Cons(r, rs) ==
    IF r.n = 0 THEN rs
    ELSE IF rs # <<>> /\ Head(rs).b = r.b THEN <<Run(r.b, r.n + Head(rs).n)>> \o Tail(rs)
    ELSE <<r>> \o rs

(* a \o b of two normal forms, in normal form *)
Join(a, b) ==
    IF a = <<>> THEN b
    ELSE IF b = <<>> THEN a
    ELSE SubSeq(a, 1, Len(a) - 1) \o Cons(a[Len(a)], b)

(* the normal form of rs *)
RECURSIVE Norm(_)
Norm(rs) ==
    IF Len(rs) = 0 THEN <<>>
    ELSE IF Len(rs) = 1 THEN (IF rs[1].n = 0 THEN <<>> ELSE rs)
    ELSE Join(Norm(FirstHalf(rs)), Norm(SecondHalf(rs)))

(* a \o b on byte strings *)
Cat(a, b) == Norm(a \o b)

(* the first n bytes of rs (all of rs when it is shorter) *)
RECURSIVE TakeBytes(_, _)
takeAcross(rs, n, l) ==
    IF n <= l THEN TakeBytes(FirstHalf(rs), n)
    ELSE FirstHalf(rs) \o TakeBytes(SecondHalf(rs), n - l)

TakeBytes(rs, n) ==
    IF n <= 0 \/ rs = <<>> THEN <<>>
    ELSE IF Len(rs) = 1 THEN (IF rs[1].n >= n THEN <<Run(rs[1].b, n)>> ELSE rs)
    ELSE takeAcross(rs, n, RunLen(FirstHalf(rs)))

(* rs without its first n bytes *)
RECURSIVE DropBytes(_, _)
dropAcross(rs, n, l) ==
    IF n < l THEN DropBytes(FirstHalf(rs), n) \o SecondHalf(rs)
    ELSE DropBytes(SecondHalf(rs), n - l)

DropBytes(rs, n) ==
    IF n <= 0 \/ rs = <<>> THEN rs
    ELSE IF Len(rs) = 1 THEN (IF rs[1].n > n THEN <<Run(rs[1].b, rs[1].n - n)>> ELSE <<>>)
    ELSE dropAcross(rs, n, RunLen(FirstHalf(rs)))

(* buf[lo:hi] *)
SubBytes(rs, lo, hi) == TakeBytes(DropBytes(rs, lo), hi - lo)

(* the byte string of a sequence of byte values, and back *)
RECURSIVE Bytes(_)
Bytes(bs) == IF bs = <<>> THEN <<>> ELSE Cons(Run(Head(bs), 1), Bytes(Tail(bs)))

RECURSIVE Explode(_)
Explode(rs) ==
    IF rs = <<>> THEN <<>>
    ELSE <<Head(rs).b>> \o Explode(Cons(Run(Head(rs).b, Head(rs).n - 1), Tail(rs)))

Zeros(n) == IF n <= 0 THEN <<>> ELSE <<Run(0, n)>>

(* binary.LittleEndian.PutUint16 / Uint16 *)
PutUint16(x) == <<x % 256, (x \div 256) % 256>>
Uint16(bs) == bs[1] + 256 * bs[2]

(* binary.LittleEndian.PutUint32 of uint32(int32(v)): two's complement *)
PutInt32(v) ==
    LET u == IF v < 0 THEN (v + 2147483647) + 1 ELSE v IN
    <<u % 256, (u \div 256) % 256, (u \div 65536) % 256,
      (u \div 16777216) + (IF v < 0 THEN 128 ELSE 0)>>

(* int32(binary.LittleEndian.Uint32(b)) *)
Int32Of(bs) ==
    LET low == bs[1] + 256 * bs[2] + 65536 * bs[3] IN
    IF bs[4] >= 128 THEN ((low + 16777216 * (bs[4] - 128)) - 2147483647) - 1
    ELSE low + 16777216 * bs[4]

(* binary.LittleEndian.PutUint64 / Uint64 of file offsets; an offset of 2^31 *)
(* or more lies beyond every file of the model and reads as NoOffset        *)
NoOffset == -1
PutUint64(x) ==
    IF x = NoOffset THEN <<255, 255, 255, 255, 255, 255, 255, 255>>
    ELSE <<x % 256, (x \div 256) % 256, (x \div 65536) % 256, (x \div 16777216) % 256,
           0, 0, 0, 0>>
Uint64(bs) ==
    IF bs[4] >= 128 \/ bs[5] # 0 \/ bs[6] # 0 \/ bs[7] # 0 \/ bs[8] # 0 THEN NoOffset
    ELSE bs[1] + 256 * bs[2] + 65536 * bs[3] + 16777216 * bs[4]

(* file.ReadAt(buf, off) with len(buf) = n: fails when the file ends before off + n *)
ReadAt(file, off, n) ==
    IF off < 0 \/ off + n > RunLen(file) THEN [buf |-> <<>>, err |-> "EOF"]
    ELSE [buf |-> SubBytes(file, off, off + n), err |-> NoErr]

(* file.WriteAt(buf, off): a write past the end extends the file, a gap reads as zeros *)
WriteAt(file, buf, off) ==
    Norm(TakeBytes(file, off) \o Zeros(off - RunLen(file)) \o buf
         \o DropBytes(file, off + RunLen(buf)))

(* Row values ([]any): kind is the Go dynamic type; i holds an integer, s the *)
(* bytes of a string, or the 8 bytes of a float64, most significant first    *)
IntVal(n) == [kind |-> "int", i |-> n, s |-> <<>>]
Int32Val(n) == [kind |-> "int32", i |-> n, s |-> <<>>]
Float64Val(bits) == [kind |-> "float64", i |-> 0, s |-> Bytes(bits)]
StringVal(runs) == [kind |-> "string", i |-> 0, s |-> runs]

MinInt32 == (-2147483647) - 1
MaxInt32 == 2147483647

(* binary.LittleEndian.PutUint64(b, math.Float64bits(fv)) and back *)
PutFloat64(v) == Bytes(Reverse(Explode(v.s)))
Float64Of(buf) == Float64Val(Reverse(Explode(buf)))

EncRes(payload, err) == [payload |-> payload, err |-> err]

(* the loop of encodeRow from column i on *)
RECURSIVE encodeFields(_, _, _, _)
encodeFields(schemaCodes, values, i, out) ==
    IF i >= Len(schemaCodes) THEN EncRes(out, NoErr)
    ELSE
    LET code == At(schemaCodes, i)
        val == At(values, i)
    IN IF code = TypeCodeInt
       THEN IF val.kind # "int" THEN EncRes(<<>>, "encodeRow: expected int")
            ELSE IF val.i < MinInt32 \/ val.i > MaxInt32
                 THEN EncRes(<<>>, "encodeRow: int out of int32 range")
            ELSE encodeFields(schemaCodes, values, i + 1, Cat(out, Bytes(PutInt32(val.i))))
       ELSE IF code = TypeCodeFloat
       THEN IF val.kind # "float64" THEN EncRes(<<>>, "encodeRow: expected float64")
            ELSE encodeFields(schemaCodes, values, i + 1, Cat(out, PutFloat64(val)))
       ELSE IF code = TypeCodeString
       THEN IF val.kind # "string" THEN EncRes(<<>>, "encodeRow: expected string")
            ELSE IF RunLen(val.s) > MaxUint16 THEN EncRes(<<>>, "encodeRow: string too large")
            ELSE encodeFields(schemaCodes, values, i + 1,
                              Cat(Cat(out, Bytes(PutUint16(RunLen(val.s)))), val.s))
       ELSE EncRes(<<>>, "encodeRow: unknown type code")

encodeRow(schemaCodes, values) ==
    IF Len(schemaCodes) # Len(values) THEN EncRes(<<>>, "encodeRow: schema len != values len")
    ELSE encodeFields(schemaCodes, values, 0, <<>>)

DecRes(values, err) == [values |-> values, err |-> err]

(* the loop of decodeRow from column i on, and its final length check *)
RECURSIVE decodeFields(_, _, _, _, _)
decodeFields(payload, schemaCodes, i, offset, out) ==
    IF i >= Len(schemaCodes)
    THEN IF offset # RunLen(payload) THEN DecRes(out, "decodeRow: payload length mismatch")
         ELSE DecRes(out, NoErr)
    ELSE
    LET code == At(schemaCodes, i) IN
    IF code = TypeCodeInt
    THEN IF offset + 4 > RunLen(payload) THEN DecRes(<<>>, "decodeRow: int out of bounds")
         ELSE decodeFields(payload, schemaCodes, i + 1, offset + 4,
                           Append(out, Int32Val(Int32Of(Explode(SubBytes(payload, offset, offset + 4))))))
    ELSE IF code = TypeCodeFloat
    THEN IF offset + 8 > RunLen(payload) THEN DecRes(<<>>, "decodeRow: float out of bounds")
         ELSE decodeFields(payload, schemaCodes, i + 1, offset + 8,
                           Append(out, Float64Of(SubBytes(payload, offset, offset + 8))))
    ELSE IF code = TypeCodeString
    THEN IF offset + 2 > RunLen(payload)
         THEN DecRes(<<>>, "decodeRow: string length out of bounds")
         ELSE LET strLen == Uint16(Explode(SubBytes(payload, offset, offset + 2))) IN
              IF offset + 2 + strLen > RunLen(payload)
              THEN DecRes(<<>>, "decodeRow: string bytes out of bounds")
              ELSE decodeFields(payload, schemaCodes, i + 1, offset + 2 + strLen,
                                Append(out, StringVal(SubBytes(payload, offset + 2,
                                                               offset + 2 + strLen))))
    ELSE DecRes(<<>>, "decodeRow: unknown type code")

decodeRow(payload, schemaCodes) == decodeFields(payload, schemaCodes, 0, 0, <<>>)

(* rowFile.  A row-file state rw is the record of the file contents and the *)
(* in-memory fields of the rowFile object.                                  *)

typeNameToCode(name) ==
    IF name = "INT" THEN TypeCodeInt
    ELSE IF name = "FLOAT" THEN TypeCodeFloat
    ELSE TypeCodeString

(* parseSchemaString on a list of upper-case type names *)
parseSchemaString(names) == [i \in 1..Len(names) |-> typeNameToCode(names[i])]

rowWriteHeader(rw) ==
    LET header == Cat(Cat(Bytes(PutUint16(rw.columnCount) \o PutUint64(rw.firstFreePage)),
                          TakeBytes(Bytes(rw.schemaCodes), SchemaReserve)),
                      Zeros(DataHeaderSize - 10 - Len(rw.schemaCodes)))
    IN [rw EXCEPT !.file = WriteAt(rw.file, header, 0)]

NewRowfile(names) ==
    rowWriteHeader([file |-> <<>>, firstFreePage |-> 0,
                    schemaCodes |-> parseSchemaString(names), columnCount |-> Len(names)])

(* OpenRowfile from the header block read at offset 0 *)
openFromHeader(file, header) ==
    [file |-> file,
     firstFreePage |-> Uint64(Explode(SubBytes(header, 2, 10))),
     schemaCodes |-> Explode(SubBytes(header, 10, 10 + Uint16(Explode(SubBytes(header, 0, 2))))),
     columnCount |-> Uint16(Explode(SubBytes(header, 0, 2)))]

OpenRowfile(file) == openFromHeader(file, ReadAt(file, 0, DataHeaderSize).buf)

AllocRes(rw, offset, err) == [rw |-> rw, offset |-> offset, err |-> err]

(* allocatePage taking the free slot at currOffset, whose next pointer is nextFree *)
unlinkSlot(rw, prevOffset, currOffset, nextFree) ==
    IF prevOffset = 0
    THEN AllocRes([rw EXCEPT !.firstFreePage = nextFree], currOffset, NoErr)
    ELSE AllocRes([rw EXCEPT !.file = WriteAt(rw.file, Bytes(PutUint64(nextFree)), prevOffset + 2)],
                  currOffset, NoErr)

(* the first-fit loop of allocatePage; visited holds the offsets already   *)
(* met, and meeting one again means the loop never ends                    *)
RECURSIVE freeListWalk(_, _, _, _, _)
atFreeSlot(rw, size, prevOffset, currOffset, visited, h) ==
    IF h.err # NoErr THEN AllocRes(rw, 0, h.err)
    ELSE IF Uint16(Explode(SubBytes(h.buf, 0, 2))) # FreeMarker
         THEN AllocRes(rw, 0, "corrupted free page")
    ELSE IF 2 + Uint16(Explode(SubBytes(h.buf, 10, 12))) >= size
         THEN unlinkSlot(rw, prevOffset, currOffset, Uint64(Explode(SubBytes(h.buf, 2, 10))))
    ELSE freeListWalk(rw, size, currOffset, Uint64(Explode(SubBytes(h.buf, 2, 10))),
                      visited \cup {currOffset})

freeListWalk(rw, size, prevOffset, currOffset, visited) ==
    IF currOffset = 0 THEN AllocRes(rw, RunLen(rw.file), NoErr)
    ELSE IF currOffset \in visited THEN AllocRes(rw, 0, "does not terminate")
    ELSE atFreeSlot(rw, size, prevOffset, currOffset, visited, ReadAt(rw.file, currOffset, 12))

rowAllocatePage(rw, size) == freeListWalk(rw, size, 0, rw.firstFreePage, {})

(* WriteRow after allocatePage returned a *)
writeAtSlot(a, buf) ==
    IF a.err # NoErr THEN AllocRes(a.rw, 0, a.err)
    ELSE AllocRes([a.rw EXCEPT !.file = WriteAt(a.rw.file, buf, a.offset)], a.offset, NoErr)

(* WriteRow after encodeRow returned e *)
writeEncoded(rw, e) ==
    IF e.err # NoErr THEN AllocRes(rw, 0, e.err)
    ELSE IF RunLen(e.payload) > MaxUint16 THEN AllocRes(rw, 0, "WriteRow: payload too large")
    ELSE writeAtSlot(rowAllocatePage(rw, 2 + RunLen(e.payload)),
                     Cat(Bytes(PutUint16(RunLen(e.payload))), e.payload))

(* WriteRow taking a slot for the two length bytes before it encodes the row *)
WriteRow_allocFirst(rw, values) ==
    writeEncoded(rowAllocatePage(rw, 2).rw, encodeRow(rw.schemaCodes, values))

WriteRow(rw, values) == writeEncoded(rw, encodeRow(rw.schemaCodes, values))

(* ReadRowAt after the 2-byte length was read *)
readPayload(rw, offset, l) ==
    IF l.err # NoErr THEN DecRes(<<>>, "ReadRowAt: read length failed")
    ELSE IF Uint16(Explode(l.buf)) = FreeMarker THEN DecRes(<<>>, "ReadRowAt: row is free")
    ELSE IF Uint16(Explode(l.buf)) = 0 THEN DecRes(<<>>, NoErr)
    ELSE IF ReadAt(rw.file, offset + 2, Uint16(Explode(l.buf))).err # NoErr
         THEN DecRes(<<>>, "ReadRowAt: read payload failed")
    ELSE IF decodeRow(ReadAt(rw.file, offset + 2, Uint16(Explode(l.buf))).buf, rw.schemaCodes).err # NoErr
         THEN DecRes(<<>>, "ReadRowAt: decode failed")
    ELSE decodeRow(ReadAt(rw.file, offset + 2, Uint16(Explode(l.buf))).buf, rw.schemaCodes)

ReadRowAt(rw, offset) == readPayload(rw, offset, ReadAt(rw.file, offset, 2))

RowRes(rw, err) == [rw |-> rw, err |-> err]

(* FreeRowAt after the 2-byte length was read *)
pushFree(rw, offset, l) ==
    IF l.err # NoErr THEN RowRes(rw, "FreeRowAt: failed to read existing length")
    ELSE IF Uint16(Explode(l.buf)) = FreeMarker THEN RowRes(rw, "FreeRowAt: already freed")
    ELSE RowRes(rowWriteHeader(
                  [rw EXCEPT !.file = WriteAt(WriteAt(rw.file, Bytes(PutUint16(FreeMarker)), offset),
                                              Bytes(PutUint64(rw.firstFreePage) \o Explode(l.buf)),
                                              offset + 2),
                             !.firstFreePage = offset]),
                NoErr)

FreeRowAt(rw, offset) == pushFree(rw, offset, ReadAt(rw.file, offset, 2))

----------------------------------------------------------------------------
(* Index page codec (page.IndexPageCodec): a node as payload bytes and back. *)
(* Keys are IntKey, FloatKey or StringKey, values are strings.               *)

KeyTypeInt == 1
KeyTypeFloat == 2
KeyTypeString == 3

IntKey(n) == [kind |-> "IntKey", i |-> n, s |-> <<>>]
FloatKey(bits) == [kind |-> "FloatKey", i |-> 0, s |-> Bytes(bits)]
StringKey(runs) == [kind |-> "StringKey", i |-> 0, s |-> runs]

encodeKey(key) ==
    IF key.kind = "IntKey"
    THEN EncRes(Cat(Bytes(<<KeyTypeInt>>), Bytes(PutInt32(key.i))), NoErr)
    ELSE IF key.kind = "FloatKey"
    THEN EncRes(Cat(Bytes(<<KeyTypeFloat>>), PutFloat64(key)), NoErr)
    ELSE IF key.kind = "StringKey"
    THEN EncRes(Cat(Cat(Bytes(<<KeyTypeString>>), Bytes(PutUint16(RunLen(key.s) % 65536))),
                    key.s), NoErr)
    ELSE EncRes(<<>>, "unsupported key type for encoding")

(* the leaf loop of encodeNode from pair i on; k is the encoded key of pair i *)
RECURSIVE encodePairs(_, _, _)
pairEncoded(pairs, i, buf, k) ==
    IF k.err # NoErr THEN EncRes(<<>>, k.err)
    ELSE IF At(pairs, i).Value.kind # "string"
         THEN EncRes(<<>>, "unsupported value type for encoding")
    ELSE encodePairs(pairs, i + 1,
                     Cat(Cat(Cat(buf, k.payload),
                             Bytes(PutUint16(RunLen(At(pairs, i).Value.s) % 65536))),
                         At(pairs, i).Value.s))

encodePairs(pairs, i, buf) ==
    IF i >= Len(pairs) THEN EncRes(buf, NoErr)
    ELSE pairEncoded(pairs, i, buf, encodeKey(At(pairs, i).K))

(* the internal-node loop of encodeNode from key i on *)
RECURSIVE encodeKeys(_, _, _)
keyEncoded(keys, i, buf, k) ==
    IF k.err # NoErr THEN EncRes(<<>>, k.err)
    ELSE encodeKeys(keys, i + 1, Cat(buf, k.payload))

encodeKeys(keys, i, buf) ==
    IF i >= Len(keys) THEN EncRes(buf, NoErr)
    ELSE keyEncoded(keys, i, buf, encodeKey(At(keys, i)))

(* encodeNode after the loop returned e: tail zero bytes stand for the pointers *)
withPlaceholders(e, countBytes, n) ==
    IF e.err # NoErr THEN e
    ELSE EncRes(Cat(Cat(e.payload, countBytes), Zeros(n)), NoErr)

encodeNode(n) ==
    IF n.isLeaf
    THEN withPlaceholders(
             encodePairs(n.Pairs, 0, Cat(Bytes(<<1>>), Bytes(PutUint16(Len(n.Pairs) % 65536)))),
             <<>>, 16)
    ELSE withPlaceholders(
             encodeKeys(n.Keys, 0, Cat(Bytes(<<0>>), Bytes(PutUint16(Len(n.Keys) % 65536)))),
             Bytes(PutUint16(Len(n.Pointers) % 65536)), 8 * Len(n.Pointers))

KeyRes(key, size, err) == [key |-> key, size |-> size, err |-> err]

decodeKey(data) ==
    IF RunLen(data) = 0 THEN KeyRes(IntKey(0), 0, "empty data for key")
    ELSE IF data[1].b = KeyTypeInt
    THEN IF 1 + 4 > RunLen(data) THEN KeyRes(IntKey(0), 0, "insufficient data for int key")
         ELSE KeyRes(IntKey(Int32Of(Explode(SubBytes(data, 1, 5)))), 5, NoErr)
    ELSE IF data[1].b = KeyTypeFloat
    THEN IF 1 + 8 > RunLen(data) THEN KeyRes(IntKey(0), 0, "insufficient data for float key")
         ELSE KeyRes(FloatKey(Reverse(Explode(SubBytes(data, 1, 9)))), 9, NoErr)
    ELSE IF data[1].b = KeyTypeString
    THEN IF 1 + 2 > RunLen(data)
         THEN KeyRes(IntKey(0), 0, "insufficient data for string key length")
         ELSE IF 3 + Uint16(Explode(SubBytes(data, 1, 3))) > RunLen(data)
         THEN KeyRes(IntKey(0), 0, "insufficient data for string key")
         ELSE KeyRes(StringKey(SubBytes(data, 3, 3 + Uint16(Explode(SubBytes(data, 1, 3))))),
                     3 + Uint16(Explode(SubBytes(data, 1, 3))), NoErr)
    ELSE KeyRes(IntKey(0), 0, "unknown key type")

NodeRes(node, err) == [node |-> node, err |-> err]

(* the loop of decodeLeafNode from pair i on; the decoded leaf has no sibling *)
(* page ids: the 16 bytes after the pairs are skipped                        *)
RECURSIVE decodePairs(_, _, _, _, _)
valueDecoded(data, numPairs, i, offset, pairs, key, valueLen) ==
    IF offset + 2 + valueLen > RunLen(data)
    THEN NodeRes(LeafNode(<<>>, 0, 0), "insufficient data for value")
    ELSE decodePairs(data, numPairs, i + 1, offset + 2 + valueLen,
                     Append(pairs, LeafPair(key, StringVal(SubBytes(data, offset + 2,
                                                                    offset + 2 + valueLen)))))

keyDecoded(data, numPairs, i, offset, pairs, k) ==
    IF k.err # NoErr THEN NodeRes(LeafNode(<<>>, 0, 0), k.err)
    ELSE IF offset + k.size + 2 > RunLen(data)
         THEN NodeRes(LeafNode(<<>>, 0, 0), "insufficient data for value length")
    ELSE valueDecoded(data, numPairs, i, offset + k.size, pairs, k.key,
                      Uint16(Explode(SubBytes(data, offset + k.size, offset + k.size + 2))))

decodePairs(data, numPairs, i, offset, pairs) ==
    IF i >= numPairs THEN NodeRes(LeafNode(pairs, 0, 0), NoErr)
    ELSE IF offset >= RunLen(data)
         THEN NodeRes(LeafNode(<<>>, 0, 0), "insufficient data for key-value pair")
    ELSE keyDecoded(data, numPairs, i, offset, pairs, decodeKey(DropBytes(data, offset)))

decodeLeafNode(data) ==
    IF RunLen(data) < 2 THEN NodeRes(LeafNode(<<>>, 0, 0), "insufficient data for leaf node")
    ELSE decodePairs(data, Uint16(Explode(SubBytes(data, 0, 2))), 0, 2, <<>>)

(* the loop of decodeInternalNode from key i on; the decoded node has no *)
(* child pointers: the placeholders after the pointer count are skipped  *)
RECURSIVE decodeKeys(_, _, _, _, _)
nextKeyDecoded(data, numKeys, i, offset, keys, k) ==
    IF k.err # NoErr THEN NodeRes(IntermNode(<<>>, <<>>), k.err)
    ELSE decodeKeys(data, numKeys, i + 1, offset + k.size, Append(keys, k.key))

decodeKeys(data, numKeys, i, offset, keys) ==
    IF i >= numKeys
    THEN IF offset + 2 > RunLen(data)
         THEN NodeRes(IntermNode(<<>>, <<>>), "insufficient data for pointer count")
         ELSE NodeRes(IntermNode(keys, <<>>), NoErr)
    ELSE IF offset >= RunLen(data)
         THEN NodeRes(IntermNode(<<>>, <<>>), "insufficient data for key")
    ELSE nextKeyDecoded(data, numKeys, i, offset, keys, decodeKey(DropBytes(data, offset)))

decodeInternalNode(data) ==
    IF RunLen(data) < 2
    THEN NodeRes(IntermNode(<<>>, <<>>), "insufficient data for internal node")
    ELSE decodeKeys(data, Uint16(Explode(SubBytes(data, 0, 2))), 0, 2, <<>>)

(* IndexPageCodec.Decode *)
DecodeNode(data) ==
    IF RunLen(data) = 0 THEN NodeRes(LeafNode(<<>>, 0, 0), "empty data")
    ELSE IF data[1].b = 1 THEN decodeLeafNode(DropBytes(data, 1))
    ELSE IF data[1].b = 0 THEN decodeInternalNode(DropBytes(data, 1))
    ELSE NodeRes(LeafNode(<<>>, 0, 0), "unknown node type")

----------------------------------------------------------------------------
(* The state machine *)

(* no row file has been created *)
RowIdle ==
    /\ rowFile = <<>>
    /\ rowObj = [firstFreePage |-> 0, schemaCodes |-> <<>>, columnCount |-> 0]
    /\ rowOpen = FALSE
    /\ rowLive = {}
    /\ rowFreed = {}
    /\ rowLast = [op |-> "none", err |-> NoErr, offset |-> 0]
    /\ rowOps = 0

(* the codec has not been called *)
CodecIdle ==
    /\ codecNode = LeafNode(<<>>, 0, 0)
    /\ codecBuf = [payload |-> <<>>, err |-> "none"]
    /\ codecOut = [node |-> LeafNode(<<>>, 0, 0), err |-> "none"]

(* the page-addressing check has not started *)
AddrIdle ==
    /\ addrFile = <<>>
    /\ addrHead = 0
    /\ addrLast = [op |-> "none", id |-> 0, node |-> LeafNode(<<>>, 0, 0), head |-> 0]
    /\ addrOps = 0

(* no in-memory tree has been created *)
MemIdle ==
    /\ memNodes = <<>>
    /\ memArrs = <<>>
    /\ memRoot = 0
    /\ memOrder = 0
    /\ memLast = [op |-> "none", key |-> 0, err |-> NoErr]
    /\ memOps = 0

Init ==
    /\ RowIdle
    /\ CodecIdle
    /\ AddrIdle
    /\ MemIdle
    /\ order \in Orders
    /\ pages = <<>>
    /\ rootPageID = 0
    /\ firstFreePage = 0
    /\ hdrRoot = 0
    /\ hdrOrder = order
    /\ hdrFree = 0
    /\ isOpen = TRUE
    /\ stored = {}
    /\ last = [op |-> "create", err |-> NoErr]
    /\ nops = 0

Install(d) ==
    /\ pages' = d.pages
    /\ hdrRoot' = d.hdrRoot
    /\ hdrOrder' = d.hdrOrder
    /\ hdrFree' = d.hdrFree
    /\ rootPageID' = d.rootPageID
    /\ order' = d.order
    /\ firstFreePage' = d.firstFreePage

(* a public call returned r: the file and the object are as it left them, *)
(* and the reference map follows a successful call                       *)
Returned(op, r, storedIfOk) ==
    /\ Install(r.d)
    /\ stored' = IF r.err = NoErr THEN storedIfOk ELSE stored
    /\ last' = [op |-> op, err |-> r.err]

Insert(key, value) ==
    /\ isOpen
    /\ nops < MaxOps
    /\ nops' = nops + 1
    /\ Returned("insert", DiskTreeInsert(IdxState, key, value),
                stored \cup {LeafPair(key, value)})
    /\ UNCHANGED isOpen
    /\ UNCHANGED rowVars
    /\ UNCHANGED codecVars
    /\ UNCHANGED addrVars
    /\ UNCHANGED memVars

Delete(key) ==
    /\ isOpen
    /\ nops < MaxOps
    /\ nops' = nops + 1
    /\ Returned("delete", DiskTreeDelete(IdxState, key), {p \in stored : p.K # key})
    /\ UNCHANGED isOpen
    /\ UNCHANGED rowVars
    /\ UNCHANGED codecVars
    /\ UNCHANGED addrVars
    /\ UNCHANGED memVars

Close ==
    /\ isOpen
    /\ Install(writeHeader(IdxState))
    /\ isOpen' = FALSE
    /\ last' = [op |-> "close", err |-> NoErr]
    /\ UNCHANGED <<stored, nops>>
    /\ UNCHANGED rowVars
    /\ UNCHANGED codecVars
    /\ UNCHANGED addrVars
    /\ UNCHANGED memVars

OpenDiskTree ==
    /\ ~isOpen
    /\ Install(readHeader(IdxState))
    /\ isOpen' = TRUE
    /\ last' = [op |-> "open", err |-> NoErr]
    /\ UNCHANGED <<stored, nops>>
    /\ UNCHANGED rowVars
    /\ UNCHANGED codecVars
    /\ UNCHANGED addrVars
    /\ UNCHANGED memVars

Next ==
    \/ \E key \in Keys : Insert(key, ValueOf(key))
    \/ \E key \in Keys : Delete(key)
    \/ Close
    \/ OpenDiskTree

Spec == Init /\ [][Next]_vars

----------------------------------------------------------------------------
(* The row-file state machine *)

RowState ==
    [file |-> rowFile, firstFreePage |-> rowObj.firstFreePage,
     schemaCodes |-> rowObj.schemaCodes, columnCount |-> rowObj.columnCount]

ObjOf(rw) ==
    [firstFreePage |-> rw.firstFreePage, schemaCodes |-> rw.schemaCodes,
     columnCount |-> rw.columnCount]

RowInstall(rw) ==
    /\ rowFile' = rw.file
    /\ rowObj' = ObjOf(rw)

(* the schemas the row file is created with *)
Schemas == {<<"INT", "STRING", "FLOAT">>, <<"INT">>, <<"STRING">>}

(* byte values of the strings and floats used as column values *)
Str_hello == <<Run(104, 1), Run(101, 1), Run(108, 2), Run(111, 1)>>
Str_r == <<Run(114, 1)>>
Str_long == <<Run(116, 1), Run(104, 1), Run(105, 1), Run(115, 1), Run(32, 1), Run(120, 18)>>
Float_pi == <<64, 9, 33, 249, 240, 27, 134, 110>>
Float_one == <<63, 240, 0, 0, 0, 0, 0, 0>>
Float_neg == <<192, 5, 191, 9, 149, 170, 247, 144>>

(* the value lists passed to WriteRow *)
Rows ==
    {<<IntVal(42), StringVal(Str_hello), Float64Val(Float_pi)>>,
     <<IntVal(1000), StringVal(Str_long), Float64Val(Float_neg)>>,
     <<IntVal(99), StringVal(Str_r), Float64Val(Float_one)>>,
     <<IntVal(7)>>,
     <<IntVal(MinInt32)>>,
     <<StringVal(<<>>)>>,
     <<StringVal(<<Run(120, MaxUint16 - 3)>>)>>,
     <<StringVal(<<Run(120, MaxUint16 - 2)>>)>>,
     <<StringVal(<<Run(120, MaxUint16 - 1)>>)>>}

(* the offsets WriteRow has returned: those holding a row, and those freed *)
(* and not reused, each with the span 2 + payload length of its last row   *)
LiveOffsets == {x.offset : x \in rowLive}
FreedOffsets == {x.offset : x \in rowFreed}
RowOffsets == LiveOffsets \cup FreedOffsets

(* the span of the row that values encodes to under the schema of the file *)
SpanOf(values) == 2 + RunLen(encodeRow(rowObj.schemaCodes, values).payload)

RowInit ==
    /\ AddrIdle
    /\ MemIdle
    /\ CodecIdle
    /\ order = 3
    /\ pages = <<>>
    /\ rootPageID = 0
    /\ firstFreePage = 0
    /\ hdrRoot = 0
    /\ hdrOrder = order
    /\ hdrFree = 0
    /\ isOpen = FALSE
    /\ stored = {}
    /\ last = [op |-> "none", err |-> NoErr]
    /\ nops = 0
    /\ \E names \in Schemas :
         /\ rowFile = NewRowfile(names).file
         /\ rowObj = ObjOf(NewRowfile(names))
    /\ rowOpen = TRUE
    /\ rowLive = {}
    /\ rowFreed = {}
    /\ rowLast = [op |-> "create", err |-> NoErr, offset |-> 0]
    /\ rowOps = 0

(* WriteRow returned r *)
WriteReturned(r, values) ==
    /\ RowInstall(r.rw)
    /\ rowLive' = IF r.err = NoErr
                  THEN {x \in rowLive : x.offset # r.offset}
                       \cup {[offset |-> r.offset, values |-> values]}
                  ELSE rowLive
    /\ rowFreed' = IF r.err = NoErr THEN {x \in rowFreed : x.offset # r.offset} ELSE rowFreed
    /\ rowLast' = [op |-> "write", err |-> r.err, offset |-> r.offset]

RowWrite(values) ==
    /\ rowOpen
    /\ rowOps < MaxRowOps
    /\ rowOps' = rowOps + 1
    /\ WriteReturned(WriteRow(RowState, values), values)
    /\ UNCHANGED rowOpen
    /\ UNCHANGED treeVars
    /\ UNCHANGED codecVars
    /\ UNCHANGED addrVars
    /\ UNCHANGED memVars

(* FreeRowAt returned r *)
FreeReturned(r, offset) ==
    /\ RowInstall(r.rw)
    /\ rowLive' = IF r.err = NoErr THEN {x \in rowLive : x.offset # offset} ELSE rowLive
    /\ rowFreed' = IF r.err = NoErr
                   THEN rowFreed \cup {[offset |-> x.offset, span |-> SpanOf(x.values)] :
                                         x \in {y \in rowLive : y.offset = offset}}
                   ELSE rowFreed
    /\ rowLast' = [op |-> "free", err |-> r.err, offset |-> offset]

RowFree(offset) ==
    /\ rowOpen
    /\ rowOps < MaxRowOps
    /\ rowOps' = rowOps + 1
    /\ FreeReturned(FreeRowAt(RowState, offset), offset)
    /\ UNCHANGED rowOpen
    /\ UNCHANGED treeVars
    /\ UNCHANGED codecVars
    /\ UNCHANGED addrVars
    /\ UNCHANGED memVars

RowClose ==
    /\ rowOpen
    /\ rowOpen' = FALSE
    /\ rowLast' = [op |-> "close", err |-> NoErr, offset |-> 0]
    /\ UNCHANGED <<rowFile, rowObj, rowLive, rowFreed, rowOps>>
    /\ UNCHANGED treeVars
    /\ UNCHANGED codecVars
    /\ UNCHANGED addrVars
    /\ UNCHANGED memVars

RowOpen ==
    /\ ~rowOpen
    /\ RowInstall(OpenRowfile(rowFile))
    /\ rowOpen' = TRUE
    /\ rowLast' = [op |-> "open", err |-> NoErr, offset |-> 0]
    /\ UNCHANGED <<rowLive, rowFreed, rowOps>>
    /\ UNCHANGED treeVars
    /\ UNCHANGED codecVars
    /\ UNCHANGED addrVars
    /\ UNCHANGED memVars

RowNext ==
    \/ \E values \in Rows : RowWrite(values)
    \/ \E offset \in RowOffsets : RowFree(offset)
    \/ RowClose
    \/ RowOpen

RowSpec == RowInit /\ [][RowNext]_vars

----------------------------------------------------------------------------
(* The codec state machine: one node is encoded, then its payload decoded *)

MaxPairs == 2

(* keys in ascending order, of one key type per node *)
IntKeys == <<IntKey(MinInt32), IntKey(-1), IntKey(5), IntKey(MaxInt32)>>
StringKeys == <<StringKey(<<>>), StringKey(Str_hello), StringKey(Str_r)>>
FloatKeys == <<FloatKey(Float_neg), FloatKey(Float_one), FloatKey(Float_pi)>>
KeyLists == {IntKeys, StringKeys, FloatKeys}

(* the keys of ks at the indices in I, in the order of ks *)
KeysAt(ks, I) ==
    [k \in 1..Cardinality(I) |-> ks[CHOOSE i \in I : Cardinality({j \in I : j < i}) = k - 1]]

(* the strictly ascending key sequences of at most MaxPairs keys of ks *)
AscendingKeys(ks) ==
    {KeysAt(ks, I) : I \in {J \in SUBSET (1..Len(ks)) : Cardinality(J) <= MaxPairs}}

CodecValues == {StringVal(<<>>), StringVal(Str_hello)}
CodecPageIds == {0, 2, 7}

CodecLeaves ==
    UNION {{LeafNode([i \in 1..Len(keys) |-> LeafPair(keys[i], vals[i])], next, prev) :
               vals \in [1..Len(keys) -> CodecValues],
               next \in CodecPageIds, prev \in CodecPageIds} :
           keys \in UNION {AscendingKeys(ks) : ks \in KeyLists}}

CodecInterms ==
    UNION {{IntermNode(keys, ptrs) : ptrs \in [1..(Len(keys) + 1) -> CodecPageIds \ {0}]} :
           keys \in UNION {AscendingKeys(ks) \ {<<>>} : ks \in KeyLists}}

CodecInit ==
    /\ AddrIdle
    /\ MemIdle
    /\ RowIdle
    /\ order = 3
    /\ pages = <<>>
    /\ rootPageID = 0
    /\ firstFreePage = 0
    /\ hdrRoot = 0
    /\ hdrOrder = order
    /\ hdrFree = 0
    /\ isOpen = FALSE
    /\ stored = {}
    /\ last = [op |-> "none", err |-> NoErr]
    /\ nops = 0
    /\ codecNode \in CodecLeaves \cup CodecInterms
    /\ codecBuf = [payload |-> <<>>, err |-> "none"]
    /\ codecOut = [node |-> LeafNode(<<>>, 0, 0), err |-> "none"]

CodecEncode ==
    /\ codecBuf.err = "none"
    /\ codecBuf' = encodeNode(codecNode)
    /\ UNCHANGED <<codecNode, codecOut>>
    /\ UNCHANGED treeVars
    /\ UNCHANGED rowVars
    /\ UNCHANGED addrVars
    /\ UNCHANGED memVars

CodecDecode ==
    /\ codecBuf.err = NoErr
    /\ codecOut.err = "none"
    /\ codecOut' = DecodeNode(codecBuf.payload)
    /\ UNCHANGED <<codecNode, codecBuf>>
    /\ UNCHANGED treeVars
    /\ UNCHANGED rowVars
    /\ UNCHANGED addrVars
    /\ UNCHANGED memVars

CodecNext ==
    \/ CodecEncode
    \/ CodecDecode

CodecSpec == CodecInit /\ [][CodecNext]_vars

----------------------------------------------------------------------------
(* Page addressing of the index file at large page ids.  The file is kept  *)
(* sparse: a function from the page slots written so far to their pages,   *)
(* slot s being the 4096 bytes at offset HeaderSize + s * PageSize.        *)

MaxAddrOps == 3

(* page ids around the id at which uint32(pageID) * PageSize wraps *)
AddrIds == {1, 2, PageIdWrap - 1, PageIdWrap, PageIdWrap + 1, PageIdWrap + 2}

AddrNodes == {LeafNode(<<LeafPair(1, ValueOf(1))>>, 0, 0), IntermNode(<<2>>, <<1, 2>>)}

(* WriteAt of one page at a slot of the sparse file *)
PutPage(file, slot, pg) ==
    [s \in DOMAIN file \cup {slot} |-> IF s = slot THEN pg ELSE file[s]]

(* ReadAt of one page: a slot past the last written one is past the end of *)
(* the file, an unwritten slot before it reads as zeros                    *)
PageReadable(file, slot) == \E s \in DOMAIN file : s >= slot
GetPage(file, slot) == IF slot \in DOMAIN file THEN file[slot] ELSE ZeroPage

writeNodeAt(file, node, pageID) ==
    PutPage(file, nodeSlot(pageID), [deleted |-> 0, nextFree |-> 0, payload |-> Encode(node)])

readNodeAt(file, pageID) ==
    IF ~PageReadable(file, nodeSlot(pageID))
    THEN [node |-> IntermNode(<<>>, <<>>), err |-> "failed to read page"]
    ELSE IF GetPage(file, nodeSlot(pageID)).deleted # 0
         THEN [node |-> IntermNode(<<>>, <<>>), err |-> "page is marked deleted"]
    ELSE [node |-> Decode(GetPage(file, nodeSlot(pageID)).payload), err |-> NoErr]

freePageAt(file, head, pageID) ==
    PutPage(file, freeSlot(pageID), [deleted |-> 1, nextFree |-> head, payload |-> ZeroPayload])

readFreeListPointerAt(file, pageID) ==
    IF ~PageReadable(file, freeSlot(pageID)) THEN [next |-> 0, err |-> "io"]
    ELSE IF GetPage(file, freeSlot(pageID)).deleted = 0
         THEN [next |-> 0, err |-> "page is not marked as free"]
    ELSE [next |-> GetPage(file, freeSlot(pageID)).nextFree, err |-> NoErr]

AddrInit ==
    /\ RowIdle
    /\ CodecIdle
    /\ AddrIdle
    /\ MemIdle
    /\ order = 3
    /\ pages = <<>>
    /\ rootPageID = 0
    /\ firstFreePage = 0
    /\ hdrRoot = 0
    /\ hdrOrder = order
    /\ hdrFree = 0
    /\ isOpen = FALSE
    /\ stored = {}
    /\ last = [op |-> "none", err |-> NoErr]
    /\ nops = 0

AddrWriteNode(pageID, node) ==
    /\ addrOps < MaxAddrOps
    /\ addrOps' = addrOps + 1
    /\ addrFile' = writeNodeAt(addrFile, node, pageID)
    /\ addrLast' = [op |-> "writeNode", id |-> pageID, node |-> node, head |-> addrHead]
    /\ UNCHANGED addrHead
    /\ UNCHANGED treeVars
    /\ UNCHANGED rowVars
    /\ UNCHANGED codecVars
    /\ UNCHANGED memVars

AddrFreePage(pageID) ==
    /\ addrOps < MaxAddrOps
    /\ addrOps' = addrOps + 1
    /\ addrFile' = freePageAt(addrFile, addrHead, pageID)
    /\ addrHead' = pageID
    /\ addrLast' = [op |-> "freePage", id |-> pageID, node |-> LeafNode(<<>>, 0, 0),
                    head |-> addrHead]
    /\ UNCHANGED treeVars
    /\ UNCHANGED rowVars
    /\ UNCHANGED codecVars
    /\ UNCHANGED memVars

AddrNext ==
    \/ \E pageID \in AddrIds : \E node \in AddrNodes : AddrWriteNode(pageID, node)
    \/ \E pageID \in AddrIds : AddrFreePage(pageID)

AddrSpec == AddrInit /\ [][AddrNext]_vars

----------------------------------------------------------------------------
(* Observation of the tree stored in the file *)

Range0(n) == 0..(n - 1)

Fuel(d) == Len(d.pages) + 1

Readable(d, pageID) == readNode(d, pageID).err = NoErr

NodeAt(d, pageID) == readNode(d, pageID).node

(* page ids met when walking down from pageID, unreadable pages included *)
RECURSIVE PagesUnder(_, _, _)
PagesUnder(d, pageID, fuel) ==
    IF fuel = 0 \/ ~Readable(d, pageID) \/ NodeAt(d, pageID).isLeaf THEN {pageID}
    ELSE {pageID} \cup UNION {PagesUnder(d, At(NodeAt(d, pageID).Pointers, i), fuel - 1) :
                                i \in Range0(Len(NodeAt(d, pageID).Pointers))}

TreePages(d) == IF d.rootPageID = 0 THEN {} ELSE PagesUnder(d, d.rootPageID, Fuel(d))

(* leaf page ids under pageID in child order *)
RECURSIVE LeavesUnder(_, _, _)
RECURSIVE LeavesOfChildren(_, _, _, _)
LeavesOfChildren(d, ptrs, i, fuel) ==
    IF i >= Len(ptrs) THEN <<>>
    ELSE LeavesUnder(d, At(ptrs, i), fuel) \o LeavesOfChildren(d, ptrs, i + 1, fuel)

LeavesUnder(d, pageID, fuel) ==
    IF fuel = 0 \/ ~Readable(d, pageID) THEN <<>>
    ELSE IF NodeAt(d, pageID).isLeaf THEN <<pageID>>
    ELSE LeavesOfChildren(d, NodeAt(d, pageID).Pointers, 0, fuel - 1)

TreeLeaves(d) == IF d.rootPageID = 0 THEN <<>> ELSE LeavesUnder(d, d.rootPageID, Fuel(d))

RECURSIVE PairsOfLeaves(_, _, _)
PairsOfLeaves(d, leaves, i) ==
    IF i >= Len(leaves) THEN <<>>
    ELSE NodeAt(d, At(leaves, i)).Pairs \o PairsOfLeaves(d, leaves, i + 1)

SeqRange(s) == {s[i] : i \in 1..Len(s)}

(* the pairs held by the leaves of the tree *)
TreePairs(d) == SeqRange(PairsOfLeaves(d, TreeLeaves(d), 0))
TreeKeys(d) == {p.K : p \in TreePairs(d)}

KeysUnder(d, pageID) ==
    {p.K : p \in SeqRange(PairsOfLeaves(d, LeavesUnder(d, pageID, Fuel(d)), 0))}

(* depths at which the walks down from pageID end; -1 when a walk does not end in a leaf *)
RECURSIVE LeafDepths(_, _, _, _)
LeafDepths(d, pageID, depth, fuel) ==
    IF fuel = 0 \/ ~Readable(d, pageID) THEN {-1}
    ELSE IF NodeAt(d, pageID).isLeaf THEN {depth}
    ELSE IF Len(NodeAt(d, pageID).Pointers) = 0 THEN {-1}
    ELSE UNION {LeafDepths(d, At(NodeAt(d, pageID).Pointers, i), depth + 1, fuel - 1) :
                  i \in Range0(Len(NodeAt(d, pageID).Pointers))}

TreeLeafDepths(d) == IF d.rootPageID = 0 THEN {} ELSE LeafDepths(d, d.rootPageID, 0, Fuel(d))

(* leaf page ids met by following next (or prev) from a leaf *)
RECURSIVE ChainFrom(_, _, _, _)
ChainFrom(d, pageID, forward, fuel) ==
    IF pageID = 0 \/ fuel = 0 \/ ~Readable(d, pageID) THEN <<>>
    ELSE <<pageID>> \o ChainFrom(d, IF forward THEN NodeAt(d, pageID).nextPage
                                    ELSE NodeAt(d, pageID).prevPage, forward, fuel - 1)

KeysOf(prs) == [i \in 1..Len(prs) |-> prs[i].K]

StrictlyIncreasing(ks) == \A i \in 1..(Len(ks) - 1) : ks[i] < ks[i + 1]

(* the pairs of a set in ascending key order *)
RECURSIVE SortedPairs(_)
SortedPairs(S) ==
    IF S = {} THEN <<>>
    ELSE LET m == CHOOSE p \in S : \A q \in S : p.K <= q.K
         IN <<m>> \o SortedPairs(S \ {m})

ForwardChain(d) ==
    IF Len(TreeLeaves(d)) = 0 THEN <<>> ELSE ChainFrom(d, TreeLeaves(d)[1], TRUE, Fuel(d))
BackwardChain(d) ==
    IF Len(TreeLeaves(d)) = 0 THEN <<>>
    ELSE ChainFrom(d, TreeLeaves(d)[Len(TreeLeaves(d))], FALSE, Fuel(d))

HasInternalRoot(d) == d.rootPageID # 0 /\ Readable(d, d.rootPageID) /\ ~NodeAt(d, d.rootPageID).isLeaf

----------------------------------------------------------------------------
(* Claims *)

Completed == isOpen /\ last.op \in {"insert", "delete"} /\ last.err = NoErr

StoredKeys == {p.K : p \in stored}

NodeSize(n) == IF n.isLeaf THEN Len(n.Pairs) ELSE Len(n.Keys)

IdxStateNext ==
    [pages |-> pages', hdrRoot |-> hdrRoot', hdrOrder |-> hdrOrder', hdrFree |-> hdrFree',
     rootPageID |-> rootPageID', order |-> order', firstFreePage |-> firstFreePage']

----------------------------------------------------------------------------
(* Index file: free list, allocation, header *)

(* the index file closed and opened again: Close, then OpenIndexFile on a new object *)
Reopened(d) ==
    readHeader([writeHeader(d) EXCEPT !.rootPageID = 0, !.order = 0, !.firstFreePage = 0])

PageIds(d) == 1..Len(d.pages)

(* the ids returned by the next two allocatePage calls, a being what the *)
(* first call returned                                                   *)
TwoFrom(a) == <<a.id, allocatePage(a.d).id>>
NextTwo(d) == TwoFrom(allocatePage(d))

(* d1 is the file after freePage(P): the next allocation returns P, also *)
(* after a reopen                                                        *)
HeadIs(d1, P) ==
    /\ allocatePage(d1).id = P
    /\ allocatePage(Reopened(d1)).id = P

(* d2 is the file after freePage(P) and freePage(Q): the next two *)
(* allocations return Q then P, also after a reopen               *)
HeadsAre(d2, P, Q) ==
    /\ NextTwo(d2) = <<Q, P>>
    /\ NextTwo(Reopened(d2)) = <<Q, P>>

LIFOAfterFree(d, d1, P) ==
    /\ HeadIs(d1, P)
    /\ \A Q \in PageIds(d) \ {P} : HeadsAre(freePage(d1, Q), P, Q)

(* C11: after freePage(P) the next allocatePage returns P; after freePage(P)  *)
(* then freePage(Q) the next two return Q then P; the same holds when the    *)
(* file is closed and reopened between the frees and the allocations         *)
C11_FreeListLIFO ==
    \A P \in PageIds(IdxState) : LIFOAfterFree(IdxState, freePage(IdxState, P), P)

(* two pages are on the free list, put there by Delete *)
C11_Witness ==
    /\ Completed
    /\ firstFreePage # 0
    /\ readFreeListPointer(IdxState, firstFreePage).next # 0
    /\ NextTwo(IdxState) = <<firstFreePage, readFreeListPointer(IdxState, firstFreePage).next>>

(* file length in bytes *)
FileSize(d) == HeaderSize + FilePages(d) * PageSize

HeaderMatches(d) ==
    d.hdrRoot = d.rootPageID /\ d.hdrFree = d.firstFreePage /\ d.hdrOrder = d.order

(* C13: after every completed operation that changes the root page id or the *)
(* free-list head, and after Close, the header on disk holds the in-memory   *)
(* root and free-list head                                                   *)
C13_HeaderDurable ==
    /\ HeaderMatches(IdxState)
    /\ \A P \in PageIds(IdxState) :
          /\ HeaderMatches(SetRoot(IdxState, P))
          /\ HeaderMatches(freePage(IdxState, P))
    /\ HeaderMatches(allocatePage(IdxState).d)

(* Delete collapsed the root: the root changed and two pages were freed *)
C13_Witness ==
    /\ last = [op |-> "delete", err |-> NoErr]
    /\ rootPageID # 0 /\ rootPageID # Len(pages)
    /\ firstFreePage # 0
    /\ readFreeListPointer(IdxState, firstFreePage).next # 0

----------------------------------------------------------------------------
(* Row-file claims, checked under RowSpec *)

(* the free-list head stored in the header block of the file *)
StoredHead(file) == Uint64(Explode(SubBytes(file, 2, 10)))

(* the rows of Rows that WriteRow has to accept on the open file *)
Writable(rw) ==
    {v \in Rows : /\ encodeRow(rw.schemaCodes, v).err = NoErr
                  /\ RunLen(encodeRow(rw.schemaCodes, v).payload) <= MaxUint16}

(* C14: after every completed WriteRow, FreeRowAt and Close the free-list    *)
(* head stored in the file header equals the in-memory head; after a reopen *)
(* the head is 0 or a slot that is free, and WriteRow of a valid row         *)
(* succeeds                                                                  *)
C14_RowHeaderDurable ==
    /\ rowLast.op \in {"write", "free", "close"} => StoredHead(rowFile) = rowObj.firstFreePage
    /\ rowLast.op = "open" =>
          /\ rowObj.firstFreePage \in FreedOffsets \cup {0}
          /\ \A v \in Writable(RowState) : WriteRow(RowState, v).err = NoErr

(* FreeRowAt has just returned nil *)
JustFreed == rowOpen /\ rowLast.op = "free" /\ rowLast.err = NoErr

(* WriteRow returned offset without an error *)
ReturnsOffset(r, offset) == r.err = NoErr /\ r.offset = offset

(* C15: right after FreeRowAt(O) a WriteRow whose span is at most the span   *)
(* of the row freed at O returns O; a WriteRow whose span is larger than the *)
(* span of every freed slot returns the end-of-file offset                   *)
C15_FreedSlotReused ==
    /\ JustFreed =>
          \A x \in {y \in rowFreed : y.offset = rowLast.offset} :
             \A v \in Writable(RowState) :
                SpanOf(v) <= x.span => ReturnsOffset(WriteRow(RowState, v), x.offset)
    /\ rowOpen =>
          \A v \in Writable(RowState) :
             (\A x \in rowFreed : x.span < SpanOf(v))
                => ReturnsOffset(WriteRow(RowState, v), RunLen(rowFile))

(* the values ReadRowAt returns for a row written as values: an int comes *)
(* back as an int32                                                       *)
AsStored(v) == IF v.kind = "int" THEN Int32Val(v.i) ELSE v
AsRead(values) == [i \in 1..Len(values) |-> AsStored(values[i])]

(* ReadRowAt(offset) returned r: no error and the values written *)
ReadsBack(r, values) == r.err = NoErr /\ r.values = AsRead(values)

(* WriteRow has just returned an offset *)
JustWritten == rowOpen /\ rowLast.op = "write" /\ rowLast.err = NoErr

(* C16: ReadRowAt at the offset WriteRow returned yields the values written, *)
(* ints as int32, right after the write and after Close and OpenRowfile,     *)
(* for appended rows and for rows placed in a reused slot                    *)
C16_RowRoundTrip ==
    JustWritten =>
       \A x \in {y \in rowLive : y.offset = rowLast.offset} :
          /\ ReadsBack(ReadRowAt(RowState, x.offset), x.values)
          /\ ReadsBack(ReadRowAt(OpenRowfile(rowFile), x.offset), x.values)

(* WriteRow returned w for a payload within the limit: the row was accepted *)
(* and ReadRowAt reads it at the returned offset                           *)
AcceptedAndReadable(w) == w.err = NoErr /\ ReadRowAt(w.rw, w.offset).err = NoErr

(* WriteRow returned w on rw for a payload over the limit *)
RejectedTooLarge(rw, w) == w.err = "WriteRow: payload too large" /\ w.rw = rw

(* C17: WriteRow accepts every row whose payload is at most 65535 bytes and  *)
(* ReadRowAt reads such a row at the returned offset; a longer payload is    *)
(* rejected as too large and nothing is written                              *)
C17_PayloadLimit ==
    rowOpen =>
       \A v \in {u \in Rows : encodeRow(rowObj.schemaCodes, u).err = NoErr} :
          IF SpanOf(v) - 2 <= MaxUint16
          THEN AcceptedAndReadable(WriteRow(RowState, v))
          ELSE RejectedTooLarge(RowState, WriteRow(RowState, v))

(* the errors of encodeRow for a value list that does not match the schema *)
SchemaMismatch ==
    {"encodeRow: schema len != values len", "encodeRow: expected int",
     "encodeRow: expected float64", "encodeRow: expected string",
     "encodeRow: int out of int32 range"}

(* this step is a WriteRow call that returned a schema mismatch *)
MismatchedWrite ==
    /\ rowOps' = rowOps + 1
    /\ rowLast'.op = "write"
    /\ rowLast'.err \in SchemaMismatch

(* C18: a WriteRow whose value list does not match the schema in length or *)
(* in value kinds fails with a schema mismatch and leaves the file, its     *)
(* header and the free-list head as they were                               *)
C18_MismatchWritesNothing ==
    [][(\A v \in Rows : (encodeRow(rowObj.schemaCodes, v).err # NoErr)
                             => (WriteRow(RowState, v).err \in SchemaMismatch))
       /\ (MismatchedWrite => (rowFile' = rowFile /\ rowObj' = rowObj))]_vars

(* a mismatching WriteRow has returned on a file whose free list is not empty *)
C18_Witness ==
    /\ rowLast.op = "write"
    /\ rowLast.err \in SchemaMismatch
    /\ rowObj.firstFreePage # 0
    /\ rowFreed # {}

(* following the next pointers of the free slots from curr, as allocatePage *)
(* does, comes to an offset a second time                                   *)
RECURSIVE ListRepeats(_, _, _)
repeatsAfter(file, curr, visited, h) ==
    IF h.err # NoErr THEN FALSE
    ELSE IF Uint16(Explode(SubBytes(h.buf, 0, 2))) # FreeMarker THEN FALSE
    ELSE ListRepeats(file, Uint64(Explode(SubBytes(h.buf, 2, 10))), visited \cup {curr})

ListRepeats(file, curr, visited) ==
    IF curr = 0 THEN FALSE
    ELSE IF curr \in visited THEN TRUE
    ELSE repeatsAfter(file, curr, visited, ReadAt(file, curr, 12))

(* this step is a FreeRowAt call on an offset that was freed and not reused *)
FreeOfFreed ==
    /\ rowOps' = rowOps + 1
    /\ rowLast'.op = "free"
    /\ rowLast'.offset \in FreedOffsets

(* C19: FreeRowAt on an offset that is already freed returns an error and    *)
(* changes neither the slot, nor the free-list head, nor the header; no      *)
(* offset is on the free list twice                                          *)
C19_DoubleFreeRefused ==
    [][(FreeOfFreed => (rowLast'.err # NoErr /\ rowFile' = rowFile /\ rowObj' = rowObj))
       /\ ~ListRepeats(rowFile', rowObj'.firstFreePage, {})]_vars

----------------------------------------------------------------------------
(* Codec claim, checked under CodecSpec *)

(* decoded equals n on the node kind, the keys, the values and, for a leaf, *)
(* the page ids of the next and the previous leaf                           *)
SameOnKeysValuesSiblings(decoded, n) ==
    /\ decoded.isLeaf = n.isLeaf
    /\ decoded.Keys = n.Keys
    /\ decoded.Pairs = n.Pairs
    /\ decoded.nextPage = n.nextPage
    /\ decoded.prevPage = n.prevPage

(* C20: for every valid node n, leaf or internal, Decode(Encode(n)) is a node *)
(* equal to n on its keys, its values and its sibling page ids               *)
C20_CodecRoundTrip ==
    codecOut.err # "none" =>
       codecOut.err = NoErr /\ SameOnKeysValuesSiblings(codecOut.node, codecNode)

----------------------------------------------------------------------------
(* Index tree: root id, Min and Max, rebalancing steps, splits *)

SmallestOf(S) == CHOOSE p \in S : \A q \in S : p.K <= q.K
LargestOf(S) == CHOOSE p \in S : \A q \in S : p.K >= q.K

Site(d, node, pageID, childIndex) ==
    [d |-> d, node |-> node, pageID |-> pageID, childIndex |-> childIndex]

SiteIfUnderflow(c, node, pageID, childIndex) ==
    IF c.err = NoErr /\ c.underflow THEN <<Site(c.d, node, pageID, childIndex)>> ELSE <<>>

RECURSIVE Underflows(_, _, _)
UnderflowsBelow(d, key, node, pageID, childIndex) ==
    IF childIndex >= Len(node.Pointers) THEN <<>>
    ELSE Underflows(d, key, At(node.Pointers, childIndex)) \o
         SiteIfUnderflow(deleteRecursive(d, key, At(node.Pointers, childIndex)),
                         node, pageID, childIndex)

Underflows(d, key, pageID) ==
    IF ~Readable(d, pageID) \/ NodeAt(d, pageID).isLeaf THEN <<>>
    ELSE UnderflowsBelow(d, key, NodeAt(d, pageID), pageID,
                         upperBound(key, NodeAt(d, pageID).Keys))

DeleteSites(d, key) ==
    IF d.rootPageID = 0 \/ Search(d, key).err # NoErr THEN {}
    ELSE SeqRange(Underflows(d, key, d.rootPageID))

(* every handleUnderflow call that some Delete makes from the current state *)
SitesNow == IF isOpen THEN UNION {DeleteSites(IdxState, k) : k \in Keys} ELSE {}

ChildOf(s) == NodeAt(s.d, At(s.node.Pointers, s.childIndex))
LeftOf(s) == NodeAt(s.d, At(s.node.Pointers, s.childIndex - 1))
RightOf(s) == NodeAt(s.d, At(s.node.Pointers, s.childIndex + 1))

HasLeft(s) == s.childIndex > 0
HasRight(s) == s.childIndex < Len(s.node.Pointers) - 1
LeftLends(s) == HasLeft(s) /\ canBorrowFrom(s.d, At(s.node.Pointers, s.childIndex - 1))
RightLends(s) == HasRight(s) /\ canBorrowFrom(s.d, At(s.node.Pointers, s.childIndex + 1))

(* the handleUnderflow call borrows from the left (right) sibling *)
BorrowsLeft(s) == LeftLends(s)
BorrowsRight(s) == ~LeftLends(s) /\ RightLends(s)

Last(seq) == seq[Len(seq)]
Front(seq) == SubSeq(seq, 1, Len(seq) - 1)

(* b is what the borrow returned: the nodes it left at the child's and the *)
(* sibling's page                                                          *)
ChildAfter(s, b) == NodeAt(b.d, At(s.node.Pointers, s.childIndex))
LeftAfter(s, b) == NodeAt(b.d, At(s.node.Pointers, s.childIndex - 1))
RightAfter(s, b) == NodeAt(b.d, At(s.node.Pointers, s.childIndex + 1))

InternalLeftBorrowAsClaimed(s, b) ==
    /\ b.err = NoErr
    /\ ChildAfter(s, b) = IntermNode(<<Last(LeftOf(s).Keys)>> \o ChildOf(s).Keys,
                                     <<Last(LeftOf(s).Pointers)>> \o ChildOf(s).Pointers)
    /\ LeftAfter(s, b) = IntermNode(Front(LeftOf(s).Keys), Front(LeftOf(s).Pointers))
    /\ b.parent = setKey(s.node, s.childIndex - 1, Last(LeftOf(s).Keys))

InternalRightBorrowAsClaimed(s, b) ==
    /\ b.err = NoErr
    /\ ChildAfter(s, b) = IntermNode(Append(ChildOf(s).Keys, Head(RightOf(s).Keys)),
                                     Append(ChildOf(s).Pointers, Head(RightOf(s).Pointers)))
    /\ RightAfter(s, b) = IntermNode(Tail(RightOf(s).Keys), Tail(RightOf(s).Pointers))
    /\ b.parent = setKey(s.node, s.childIndex, Head(RightOf(s).Keys))

StepSites ==
    IF isOpen /\ last'.op = "delete" /\ nops' = nops + 1
    THEN UNION {DeleteSites(IdxState, k) : k \in StoredKeys \ {p.K : p \in stored'}}
    ELSE {}

(* the pages of the file other than those in S are as they were *)
OtherPagesKept(d0, d1, S) ==
    /\ Len(d1.pages) = Len(d0.pages)
    /\ \A i \in 1..Len(d0.pages) : i \notin S => d1.pages[i] = d0.pages[i]

TouchedByBorrowLeft(s) ==
    {At(s.node.Pointers, s.childIndex - 1), At(s.node.Pointers, s.childIndex), s.pageID}
TouchedByBorrowRight(s) ==
    {At(s.node.Pointers, s.childIndex + 1), At(s.node.Pointers, s.childIndex), s.pageID}

(* h is what handleUnderflow returned for the call s *)
LeafLeftBorrowAsClaimed(s, h) ==
    /\ h.err = NoErr
    /\ ChildAfter(s, h) = [ChildOf(s) EXCEPT !.Pairs = <<Last(LeftOf(s).Pairs)>> \o ChildOf(s).Pairs]
    /\ LeftAfter(s, h) = [LeftOf(s) EXCEPT !.Pairs = Front(LeftOf(s).Pairs)]
    /\ NodeAt(h.d, s.pageID) = setKey(s.node, s.childIndex - 1, Head(ChildAfter(s, h).Pairs).K)
    /\ Head(ChildAfter(s, h).Pairs) = Last(LeftOf(s).Pairs)
    /\ OtherPagesKept(s.d, h.d, TouchedByBorrowLeft(s))

LeafRightBorrowAsClaimed(s, h) ==
    /\ h.err = NoErr
    /\ ChildAfter(s, h) = [ChildOf(s) EXCEPT !.Pairs = Append(ChildOf(s).Pairs, Head(RightOf(s).Pairs))]
    /\ RightAfter(s, h) = [RightOf(s) EXCEPT !.Pairs = Tail(RightOf(s).Pairs)]
    /\ Len(RightAfter(s, h).Pairs) > 0
    /\ NodeAt(h.d, s.pageID) = setKey(s.node, s.childIndex, Head(RightAfter(s, h).Pairs).K)
    /\ OtherPagesKept(s.d, h.d, TouchedByBorrowRight(s))

LeafBorrowAsClaimed(s) ==
    /\ (BorrowsLeft(s) /\ ChildOf(s).isLeaf) =>
          LeafLeftBorrowAsClaimed(s, handleUnderflow(s.d, s.node, s.pageID, s.childIndex))
    /\ (BorrowsRight(s) /\ ChildOf(s).isLeaf) =>
          LeafRightBorrowAsClaimed(s, handleUnderflow(s.d, s.node, s.pageID, s.childIndex))

Merges(s) == ~LeftLends(s) /\ ~RightLends(s) /\ (HasLeft(s) \/ HasRight(s))
MergesLeft(s) == Merges(s) /\ HasLeft(s)
MergesRight(s) == Merges(s) /\ ~HasLeft(s)

(* the entries of node a followed by those of node b, sep between the keys *)
(* of internal nodes                                                       *)
EntriesJoined(n, a, b, sep) ==
    IF a.isLeaf
    THEN n.isLeaf /\ n.Pairs = a.Pairs \o b.Pairs
    ELSE ~n.isLeaf /\ n.Keys = a.Keys \o <<sep>> \o b.Keys
                   /\ n.Pointers = a.Pointers \o b.Pointers

(* h is what handleUnderflow returned for the call s, which merged the node *)
(* b at parent slot ptrIndex into the node a at the slot before it          *)
MergeAsClaimed(s, h, a, b, ptrIndex) ==
    /\ h.err = NoErr
    /\ EntriesJoined(NodeAt(h.d, At(s.node.Pointers, ptrIndex - 1)), a, b,
                     At(s.node.Keys, ptrIndex - 1))
    /\ NodeAt(h.d, s.pageID).Keys = removeAt(s.node.Keys, ptrIndex - 1)
    /\ NodeAt(h.d, s.pageID).Pointers = removeAt(s.node.Pointers, ptrIndex)
    /\ Len(NodeAt(h.d, s.pageID).Keys) = Len(s.node.Keys) - 1
    /\ Len(NodeAt(h.d, s.pageID).Pointers) = Len(s.node.Pointers) - 1
    /\ h.d.firstFreePage = At(s.node.Pointers, ptrIndex)
    /\ readFreeListPointer(h.d, At(s.node.Pointers, ptrIndex)) =
           [next |-> s.d.firstFreePage, err |-> NoErr]
    /\ ~Readable(h.d, At(s.node.Pointers, ptrIndex))

MergedAsClaimed(s) ==
    /\ MergesLeft(s) =>
          MergeAsClaimed(s, handleUnderflow(s.d, s.node, s.pageID, s.childIndex),
                         LeftOf(s), ChildOf(s), s.childIndex)
    /\ MergesRight(s) =>
          MergeAsClaimed(s, handleUnderflow(s.d, s.node, s.pageID, s.childIndex),
                         ChildOf(s), RightOf(s), s.childIndex + 1)

AboveMinimum(n, d) == NodeSize(n) > (d.order - 1) \div 2

LeftCanLend(s) == HasLeft(s) /\ AboveMinimum(LeftOf(s), s.d)
RightCanLend(s) == HasRight(s) /\ AboveMinimum(RightOf(s), s.d)

SameEntries(a, b) == a.Pairs = b.Pairs /\ a.Keys = b.Keys /\ a.Pointers = b.Pointers

(* what the call s did, read off the file h.d it left: *)
(* one entry left the left (right) sibling and no page was freed *)
TookFromLeft(s, h) ==
    /\ h.err = NoErr
    /\ NodeSize(LeftAfter(s, h)) = NodeSize(LeftOf(s)) - 1
    /\ NodeSize(ChildAfter(s, h)) = NodeSize(ChildOf(s)) + 1
    /\ HasRight(s) => RightAfter(s, h) = RightOf(s)
    /\ h.d.firstFreePage = s.d.firstFreePage
    /\ Len(NodeAt(h.d, s.pageID).Pointers) = Len(s.node.Pointers)

TookFromRight(s, h) ==
    /\ h.err = NoErr
    /\ NodeSize(RightAfter(s, h)) = NodeSize(RightOf(s)) - 1
    /\ NodeSize(ChildAfter(s, h)) = NodeSize(ChildOf(s)) + 1
    /\ HasLeft(s) => LeftAfter(s, h) = LeftOf(s)
    /\ h.d.firstFreePage = s.d.firstFreePage
    /\ Len(NodeAt(h.d, s.pageID).Pointers) = Len(s.node.Pointers)

(* the child was merged into its left sibling and its page freed *)
MergedIntoLeft(s, h) ==
    /\ h.err = NoErr
    /\ h.d.firstFreePage = At(s.node.Pointers, s.childIndex)
    /\ NodeSize(LeftAfter(s, h)) >= NodeSize(LeftOf(s)) + NodeSize(ChildOf(s))
    /\ HasRight(s) => SameEntries(RightAfter(s, h), RightOf(s))
    /\ NodeAt(h.d, s.pageID).Pointers = removeAt(s.node.Pointers, s.childIndex)

(* the right sibling was merged into the child and its page freed *)
RightMergedIntoChild(s, h) ==
    /\ h.err = NoErr
    /\ h.d.firstFreePage = At(s.node.Pointers, s.childIndex + 1)
    /\ NodeSize(ChildAfter(s, h)) >= NodeSize(ChildOf(s)) + NodeSize(RightOf(s))
    /\ NodeAt(h.d, s.pageID).Pointers = removeAt(s.node.Pointers, s.childIndex + 1)

UnderflowOrderKept(s, h) ==
    IF LeftCanLend(s) THEN TookFromLeft(s, h)
    ELSE IF RightCanLend(s) THEN TookFromRight(s, h)
    ELSE IF HasLeft(s) THEN MergedIntoLeft(s, h)
    ELSE HasRight(s) /\ RightMergedIntoChild(s, h)

RootIsBare(d) ==
    /\ d.rootPageID # 0
    /\ Readable(d, d.rootPageID)
    /\ ~NodeAt(d, d.rootPageID).isLeaf
    /\ Len(NodeAt(d, d.rootPageID).Keys) = 0
    /\ Len(NodeAt(d, d.rootPageID).Pointers) = 1

(* r is the file as the descent of Delete left it, d1 the file Delete returned *)
RootCollapsed(r, d1) ==
    /\ d1.rootPageID = At(NodeAt(r, r.rootPageID).Pointers, 0)
    /\ d1.hdrRoot = d1.rootPageID
    /\ d1.firstFreePage = r.rootPageID
    /\ d1.hdrFree = r.rootPageID
    /\ readFreeListPointer(d1, r.rootPageID) = [next |-> r.firstFreePage, err |-> NoErr]
    /\ OtherPagesKept(r, d1, {r.rootPageID})

RootAfterDelete(r, d1) ==
    IF r.err = NoErr /\ RootIsBare(r.d)
    THEN RootCollapsed(r.d, d1)
    ELSE d1.rootPageID = r.d.rootPageID /\ d1.hdrRoot = r.d.hdrRoot

RECURSIVE LeafPageFor(_, _, _)
LeafPageBelow(d, key, node, childIndex) ==
    IF childIndex >= Len(node.Pointers) THEN 0
    ELSE LeafPageFor(d, key, At(node.Pointers, childIndex))

LeafPageFor(d, key, pageID) ==
    IF ~Readable(d, pageID) THEN 0
    ELSE IF NodeAt(d, pageID).isLeaf THEN pageID
    ELSE LeafPageBelow(d, key, NodeAt(d, pageID), upperBound(key, NodeAt(d, pageID).Keys))

(* the pairs of the leaf with the new pair put in its place *)
WithPair(prs, key, value) ==
    LET below == SelectSeq(prs, LAMBDA p : p.K < key)
        above == SelectSeq(prs, LAMBDA p : p.K > key)
    IN below \o <<LeafPair(key, value)>> \o above

(* r is what insertIntoLeaf returned for the leaf at pageID, all being the *)
(* pairs the leaf would hold                                               *)
LeafNotSplit(d, r, pageID, all) ==
    /\ r.promotedKey = NilKey /\ r.newRightPageID = 0
    /\ NodeAt(r.d, pageID).Pairs = all
    /\ Len(r.d.pages) = Len(d.pages)
    /\ r.d.firstFreePage = d.firstFreePage

LeafSplit(d, r, pageID, all) ==
    /\ r.newRightPageID # 0
    /\ r.newRightPageID = allocatePage(d).id
    /\ r.newRightPageID \notin TreePages(d)
    /\ NodeAt(r.d, pageID).isLeaf
    /\ NodeAt(r.d, pageID).Pairs = SubSeq(all, 1, Len(all) \div 2)
    /\ NodeAt(r.d, r.newRightPageID).isLeaf
    /\ NodeAt(r.d, r.newRightPageID).Pairs = SubSeq(all, Len(all) \div 2 + 1, Len(all))
    /\ r.promotedKey = Head(NodeAt(r.d, r.newRightPageID).Pairs).K

LeafInsertAsClaimed(d, r, pageID, all) ==
    /\ r.err = NoErr
    /\ IF Len(all) = d.order THEN LeafSplit(d, r, pageID, all)
       ELSE LeafNotSplit(d, r, pageID, all)

InsertedIntoLeaf(d, key, pageID) ==
    pageID # 0 =>
       LeafInsertAsClaimed(d, insertIntoLeaf(d, key, ValueOf(key), NodeAt(d, pageID), pageID),
                           pageID, WithPair(NodeAt(d, pageID).Pairs, key, ValueOf(key)))

(* the keys that the Insert this step is has added *)
StepInserted ==
    IF isOpen /\ last'.op = "insert" /\ nops' = nops + 1 /\ rootPageID # 0
    THEN {p.K : p \in stored'} \ StoredKeys
    ELSE {}

PromotionSite(r, node, pageID, childIndex) ==
    IF r.err = NoErr /\ ~(r.promotedKey = NilKey /\ r.newRightPageID = 0)
    THEN <<[d |-> r.d, node |-> node, pageID |-> pageID, childIndex |-> childIndex,
            promotedKey |-> r.promotedKey, newRightPageID |-> r.newRightPageID]>>
    ELSE <<>>

RECURSIVE Promotions(_, _, _)
PromotionsBelow(d, key, node, pageID, childIndex) ==
    IF childIndex >= Len(node.Pointers) \/ ~Readable(d, At(node.Pointers, childIndex)) THEN <<>>
    ELSE Promotions(d, key, At(node.Pointers, childIndex)) \o
         PromotionSite(insertRecursive(d, key, ValueOf(key),
                                       NodeAt(d, At(node.Pointers, childIndex)),
                                       At(node.Pointers, childIndex)),
                       node, pageID, childIndex)

Promotions(d, key, pageID) ==
    IF ~Readable(d, pageID) \/ NodeAt(d, pageID).isLeaf THEN <<>>
    ELSE PromotionsBelow(d, key, NodeAt(d, pageID), pageID,
                         upperBound(key, NodeAt(d, pageID).Keys))

InsertSites(d, key) ==
    IF d.rootPageID = 0 THEN {} ELSE SeqRange(Promotions(d, key, d.rootPageID))

(* the keys and pointers the node would hold *)
KeysWith(s) == insertAt(s.node.Keys, s.childIndex, s.promotedKey)
PointersWith(s) == insertAt(s.node.Pointers, s.childIndex + 1, s.newRightPageID)

(* r is what insertPromoted returned for the site s *)
IntermNotSplit(s, r) ==
    /\ r.promotedKey = NilKey /\ r.newRightPageID = 0
    /\ NodeAt(r.d, s.pageID) = IntermNode(KeysWith(s), PointersWith(s))
    /\ Len(r.d.pages) = Len(s.d.pages)
    /\ r.d.firstFreePage = s.d.firstFreePage

(* keys and ptrs are the lists the node would hold, at the 0-based index of *)
(* the separator                                                            *)
IntermSplit(s, r, keys, ptrs, at) ==
    /\ r.promotedKey = keys[at + 1]
    /\ r.newRightPageID # 0
    /\ r.newRightPageID = allocatePage(s.d).id
    /\ r.newRightPageID \notin TreePages(s.d) \cup {s.newRightPageID}
    /\ NodeAt(r.d, s.pageID) = IntermNode(SubSeq(keys, 1, at), SubSeq(ptrs, 1, at + 1))
    /\ NodeAt(r.d, r.newRightPageID) =
          IntermNode(SubSeq(keys, at + 2, Len(keys)), SubSeq(ptrs, at + 2, Len(ptrs)))
    /\ r.promotedKey \notin SeqRange(NodeAt(r.d, s.pageID).Keys)
    /\ r.promotedKey \notin SeqRange(NodeAt(r.d, r.newRightPageID).Keys)
    /\ Len(NodeAt(r.d, s.pageID).Pointers) = Len(NodeAt(r.d, s.pageID).Keys) + 1
    /\ Len(NodeAt(r.d, r.newRightPageID).Pointers) = Len(NodeAt(r.d, r.newRightPageID).Keys) + 1

PromotedAsClaimed(s, r) ==
    /\ r.err = NoErr
    /\ IF Len(s.node.Keys) + 1 = s.d.order
       THEN IntermSplit(s, r, KeysWith(s), PointersWith(s), (s.d.order - 1) \div 2)
       ELSE IntermNotSplit(s, r)

----------------------------------------------------------------------------
(* Index file page addressing, checked under AddrSpec *)

(* the page of the file at byte offset HeaderSize + pageID * PageSize *)
PageAtTrueOffset(file, pageID) == GetPage(file, pageID)

(* C30: for every page id, writeNode, readNode, freePage and the free-list   *)
(* pointer read address the page at offset 512 + id * 4096: the page that    *)
(* writeNode(id) wrote is at that offset, is read back by readNode(id), and  *)
(* is the page that freePage(id) tombstones, after which readNode(id) fails  *)
(* and the pointer read returns the previous head                            *)
C30_SamePage ==
    /\ addrLast.op = "writeNode" =>
          /\ PageAtTrueOffset(addrFile, addrLast.id).payload = Encode(addrLast.node)
          /\ readNodeAt(addrFile, addrLast.id) = [node |-> addrLast.node, err |-> NoErr]
          /\ readNodeAt(freePageAt(addrFile, addrHead, addrLast.id), addrLast.id).err =
                 "page is marked deleted"
    /\ addrLast.op = "freePage" =>
          /\ PageAtTrueOffset(addrFile, addrLast.id).deleted = 1
          /\ readNodeAt(addrFile, addrLast.id).err = "page is marked deleted"
          /\ readFreeListPointerAt(addrFile, addrLast.id) = [next |-> addrLast.head, err |-> NoErr]

----------------------------------------------------------------------------
(* Row file: the free list as allocatePage walks it, checked under RowSpec *)

(* the free slots met by following the next pointers from curr, each with  *)
(* the span 2 + original payload length its metadata records; the walk     *)
(* stops at 0, at an offset met before, and at a slot that cannot be read  *)
(* or does not carry the free marker                                       *)
RECURSIVE FreeChainFrom(_, _, _)
chainAfter(file, curr, visited, h) ==
    IF h.err # NoErr THEN <<>>
    ELSE IF Uint16(Explode(SubBytes(h.buf, 0, 2))) # FreeMarker THEN <<>>
    ELSE <<[offset |-> curr, span |-> 2 + Uint16(Explode(SubBytes(h.buf, 10, 12)))]>>
         \o FreeChainFrom(file, Uint64(Explode(SubBytes(h.buf, 2, 10))), visited \cup {curr})

FreeChainFrom(file, curr, visited) ==
    IF curr = 0 \/ curr \in visited THEN <<>>
    ELSE chainAfter(file, curr, visited, ReadAt(file, curr, 12))

FreeChain(rw) == FreeChainFrom(rw.file, rw.firstFreePage, {})

(* the sequence without its i-th element, i counted from 1 *)
Without(seq, i) == SubSeq(seq, 1, i - 1) \o SubSeq(seq, i + 1, Len(seq))

(* the positions of the chain whose span is at least size *)
Fits(chain, size) == {i \in 1..Len(chain) : chain[i].span >= size}

FirstFit(chain, size) == CHOOSE i \in Fits(chain, size) : \A j \in Fits(chain, size) : i <= j

(* WriteRow returned r for a row of span size on rw, whose free list is chain *)
ReusedFirstFit(rw, chain, size, r) ==
    /\ r.err = NoErr
    /\ IF Fits(chain, size) = {}
       THEN /\ r.offset = RunLen(rw.file)
            /\ FreeChain(r.rw) = chain
       ELSE /\ r.offset = chain[FirstFit(chain, size)].offset
            /\ FreeChain(r.rw) = Without(chain, FirstFit(chain, size))
            /\ (FirstFit(chain, size) = 1) <=> (r.rw.firstFreePage # rw.firstFreePage)

(* C31: WriteRow reuses the first slot in free-list order, most recently     *)
(* freed first, whose span 2 + original payload length is at least the span  *)
(* of the new row; that slot alone is unlinked, through the head when it is  *)
(* first and through the previous slot's next pointer otherwise, and every  *)
(* other free slot stays on the list in the same relative order             *)
C31_FirstFit ==
    rowOpen =>
       /\ {FreeChain(RowState)[i] : i \in 1..Len(FreeChain(RowState))} = rowFreed
       /\ \A v \in Writable(RowState) :
             ReusedFirstFit(RowState, FreeChain(RowState), SpanOf(v), WriteRow(RowState, v))

----------------------------------------------------------------------------
(* The in-memory tree (package tree, Tree[K, V]). Nodes are heap objects    *)
(* reached by pointer; Pairs, Keys and Pointers are Go slices. A slice is a  *)
(* backing array, an offset and a length, and its capacity is what is left   *)
(* of the array after the offset; two slices cut from one array share its    *)
(* elements. Pointer 0 is nil.                                               *)

MaxMemOps == 6
MemKeys == 1..4
MemOrders == {3, 4, 5}

(* the capacity a growing append leaves beyond the length is the runtime's *)
(* choice                                                                  *)
Slack == {0, 1}

(* panic is set once a call has panicked; the call then does not return *)
MemHeap == [nodes |-> memNodes, arrs |-> memArrs, panic |-> FALSE]

Panicked(h) == [h EXCEPT !.panic = TRUE]

SliceOf(arr, off, len) == [arr |-> arr, off |-> off, len |-> len]
NilSlice == SliceOf(0, 0, 0)
Cap(h, s) == IF s.arr = 0 THEN 0 ELSE Len(h.arrs[s.arr]) - s.off
Elems(h, s) == [i \in 1..s.len |-> h.arrs[s.arr][s.off + i]]

MemLeaf(pairs, next, prev) == [isLeaf |-> TRUE, Pairs |-> pairs, next |-> next, prev |-> prev]
MemInterm(keys, pointers) == [isLeaf |-> FALSE, Keys |-> keys, Pointers |-> pointers]

SlRes(h, s) == [h |-> h, s |-> s]

(* a slice over a new array holding vals, with slack more elements of capacity *)
NewSlice(h, vals, slack) ==
    SlRes([h EXCEPT !.arrs = Append(@, vals \o [i \in 1..slack |-> 0])],
          SliceOf(Len(h.arrs) + 1, 0, Len(vals)))

(* s[lo:hi] *)
Reslice(s, lo, hi) == SliceOf(s.arr, s.off + lo, hi - lo)

(* s[i] = v, which panics when i is not below the length *)
SetElem(h, s, i, v) ==
    IF i < 0 \/ i >= s.len THEN Panicked(h)
    ELSE [h EXCEPT !.arrs[s.arr][s.off + i + 1] = v]

(* append(s, vals...): in place while the capacity allows, which writes    *)
(* over whatever shares the array behind the length; otherwise a new array *)
memAppend(h, s, vals, slack) ==
    IF Len(vals) = 0 THEN SlRes(h, s)
    ELSE IF s.len + Len(vals) <= Cap(h, s)
    THEN SlRes([h EXCEPT !.arrs[s.arr] =
                   [p \in 1..Len(@) |->
                       IF p > s.off + s.len /\ p <= s.off + s.len + Len(vals)
                       THEN vals[p - s.off - s.len] ELSE @[p]]],
               SliceOf(s.arr, s.off, s.len + Len(vals)))
    ELSE NewSlice(h, Elems(h, s) \o vals, slack)

(* insertAt: make(len+1) and copy *)
memInsertAt(h, s, index, value) ==
    IF index < 0 \/ index > s.len THEN SlRes(Panicked(h), s)
    ELSE NewSlice(h, insertAt(Elems(h, s), index, value), 0)

(* removeAt: append(s[:index], s[index+1:]...), which moves the elements *)
(* behind index one place down inside the array of s                     *)
memRemoveAt(h, s, index) ==
    IF index < 0 \/ index >= s.len THEN SlRes(Panicked(h), s)
    ELSE memAppend(h, Reslice(s, 0, index), Elems(h, Reslice(s, index + 1, s.len)), 0)

(* NewTree *)
NewTree(ord) ==
    [h |-> [nodes |-> <<MemLeaf(NilSlice, 0, 0)>>, arrs |-> <<>>, panic |-> FALSE], root |-> 1,
     order |-> ord]

MemTree == [h |-> MemHeap, root |-> memRoot, order |-> memOrder]

MInsRes(h, pk, nr, err) == [h |-> h, promotedKey |-> pk, newRight |-> nr, err |-> err]

(* leafUpperBound of package tree: the first index whose key is greater *)
(* than key; upperBound and leafBinarySearch of the package compute     *)
(* what those of DiskTree compute                                       *)
RECURSIVE memLubLoop(_, _, _, _)
memLubLoop(key, pairs, l, r) ==
    IF l < r
    THEN IF key < At(pairs, (l + r) \div 2).K
         THEN memLubLoop(key, pairs, l, (l + r) \div 2)
         ELSE memLubLoop(key, pairs, (l + r) \div 2 + 1, r)
    ELSE l

memLeafUpperBound(key, pairs) == memLubLoop(key, pairs, 0, Len(pairs))

(* insert on a leaf that is full: newSlice[:num] stays, newSlice[num:] goes *)
(* to a new leaf linked in behind the node                                 *)
memSplitLeaf(h, node, newSlice, num) ==
    LET n == h.nodes[node]
        r == Len(h.nodes) + 1
        right == Reslice(newSlice, num, newSlice.len)
        linked == IF n.next # 0 THEN [h.nodes EXCEPT ![n.next].prev = r] ELSE h.nodes
    IN MInsRes([h EXCEPT !.nodes =
                   Append([linked EXCEPT ![node].Pairs = Reslice(newSlice, 0, num),
                                         ![node].next = r],
                          MemLeaf(right, n.next, node))],
               At(Elems(h, right), 0).K, r, NoErr)

(* insert on a leaf after the position was found *)
memInsertIntoLeaf(h, key, value, node, ord, pairs, index) ==
    IF index < Len(pairs) /\ At(pairs, index).K = key
    THEN MInsRes(h, NilKey, 0, "duplicate key")
    ELSE LET ns == memInsertAt(h, h.nodes[node].Pairs, index, LeafPair(key, value)) IN
         IF Len(pairs) = ord - 1
         THEN memSplitLeaf(ns.h, node, ns.s, (ord - 1) \div 2)
         ELSE MInsRes([ns.h EXCEPT !.nodes[node].Pairs = ns.s], NilKey, 0, NoErr)

(* insert on an internal node that holds ord keys: keys and ptrs are the *)
(* slices after the promoted key and pointer were put in                   *)
memSplitInterm(h, node, keys, ptrs, num, rk, slack) ==
    LET rp == memAppend(rk.h, NilSlice, Elems(rk.h, Reslice(ptrs, num + 1, ptrs.len)), slack)
    IN MInsRes([rp.h EXCEPT !.nodes =
                   Append([@ EXCEPT ![node].Keys = Reslice(keys, 0, num),
                                    ![node].Pointers = Reslice(ptrs, 0, num + 1)],
                          MemInterm(rk.s, rp.s))],
               At(Elems(h, keys), num), Len(h.nodes) + 1, NoErr)

(* insert on an internal node after the recursive call returned c *)
memInsertPromoted(node, index, ord, c, slack) ==
    IF c.err # NoErr THEN MInsRes(c.h, NilKey, 0, c.err)
    ELSE IF c.promotedKey = NilKey /\ c.newRight = 0 THEN MInsRes(c.h, NilKey, 0, NoErr)
    ELSE LET k == memInsertAt(c.h, c.h.nodes[node].Keys, index, c.promotedKey)
             p == memInsertAt(k.h, k.h.nodes[node].Pointers, index + 1, c.newRight)
         IN IF k.s.len = ord
            THEN memSplitInterm(p.h, node, k.s, p.s, (ord - 1) \div 2,
                                memAppend(p.h, NilSlice,
                                          Elems(p.h, Reslice(k.s, (ord - 1) \div 2 + 1, k.s.len)),
                                          slack),
                                slack)
            ELSE MInsRes([p.h EXCEPT !.nodes[node].Keys = k.s, !.nodes[node].Pointers = p.s],
                         NilKey, 0, NoErr)

RECURSIVE memInsert(_, _, _, _, _, _)
memInsertBelow(h, key, value, node, ord, index, slack) ==
    memInsertPromoted(node, index, ord,
                      memInsert(h, key, value, At(Elems(h, h.nodes[node].Pointers), index),
                                ord, slack),
                      slack)

memInsert(h, key, value, node, ord, slack) ==
    IF h.nodes[node].isLeaf
    THEN memInsertIntoLeaf(h, key, value, node, ord, Elems(h, h.nodes[node].Pairs),
                           memLeafUpperBound(key, Elems(h, h.nodes[node].Pairs)))
    ELSE memInsertBelow(h, key, value, node, ord,
                        upperBound(key, Elems(h, h.nodes[node].Keys)), slack)

MemRes(t, err) == [t |-> t, err |-> err]

(* Tree.Insert after insert returned r on the root *)
memNewRoot(t, r) ==
    IF r.err # NoErr THEN MemRes([t EXCEPT !.h = r.h], r.err)
    ELSE IF r.promotedKey = NilKey /\ r.newRight = 0 THEN MemRes([t EXCEPT !.h = r.h], NoErr)
    ELSE LET k == NewSlice(r.h, <<r.promotedKey>>, 0)
             p == NewSlice(k.h, <<t.root, r.newRight>>, 0)
         IN MemRes([t EXCEPT !.h = [p.h EXCEPT !.nodes = Append(@, MemInterm(k.s, p.s))],
                             !.root = Len(p.h.nodes) + 1],
                   NoErr)

MemTreeInsert(t, key, value, slack) ==
    IF t.root = 0 THEN MemRes(t, "tree root is nil")
    ELSE memNewRoot(t, memInsert(t.h, key, value, t.root, t.order, slack))

(* dfs *)
RECURSIVE memDfs(_, _, _)
memDfs(h, key, node) ==
    IF ~h.nodes[node].isLeaf
    THEN memDfs(h, key, At(Elems(h, h.nodes[node].Pointers),
                           upperBound(key, Elems(h, h.nodes[node].Keys))))
    ELSE IF leafBinarySearch(key, Elems(h, h.nodes[node].Pairs)) = -1
         THEN [value |-> 0, err |-> "not found"]
    ELSE [value |-> At(Elems(h, h.nodes[node].Pairs),
                       leafBinarySearch(key, Elems(h, h.nodes[node].Pairs))).Value,
          err |-> NoErr]

MemSearch(t, key) ==
    IF t.root = 0 THEN [value |-> 0, err |-> "tree is empty"] ELSE memDfs(t.h, key, t.root)

MDelRes(h, underflow, err) == [h |-> h, underflow |-> underflow, err |-> err]

(* deleteFromLeaf after the binary search returned index *)
memDeleteFromLeaf(h, node, ord, index) ==
    IF index = -1 THEN MDelRes(h, FALSE, NoErr)
    ELSE LET r == memRemoveAt(h, h.nodes[node].Pairs, index) IN
         MDelRes([r.h EXCEPT !.nodes[node].Pairs = r.s], r.s.len < (ord - 1) \div 2, NoErr)

memCanBorrowFrom(h, node, ord) ==
    IF h.nodes[node].isLeaf THEN h.nodes[node].Pairs.len > (ord - 1) \div 2
    ELSE h.nodes[node].Keys.len > (ord - 1) \div 2

(* the node behind node.Pointers[i] *)
PtrAt(h, node, i) == At(Elems(h, h.nodes[node].Pointers), i)

(* borrowFromLeft between the leaves L and C *)
memBorrowLeafFromLeft(h, node, childIndex, L, C, borrowed) ==
    LET h1 == [h EXCEPT !.nodes[L].Pairs = Reslice(@, 0, @.len - 1)]
        c == memInsertAt(h1, h1.nodes[C].Pairs, 0, borrowed)
        h2 == [c.h EXCEPT !.nodes[C].Pairs = c.s]
    IN SetElem(h2, h2.nodes[node].Keys, childIndex - 1, borrowed.K)

(* borrowFromLeft between the internal nodes L and C *)
memBorrowIntermFromLeft(h, node, childIndex, L, C, borrowedKey, borrowedPtr) ==
    LET h1 == [h EXCEPT !.nodes[L].Keys = Reslice(@, 0, @.len - 1),
                        !.nodes[L].Pointers = Reslice(@, 0, @.len - 1)]
        k == memInsertAt(h1, h1.nodes[C].Keys, 0, borrowedKey)
        p == memInsertAt(k.h, k.h.nodes[C].Pointers, 0, borrowedPtr)
        h2 == [p.h EXCEPT !.nodes[C].Keys = k.s, !.nodes[C].Pointers = p.s]
    IN SetElem(h2, h2.nodes[node].Keys, childIndex - 1, borrowedKey)

memBorrowFromLeft(h, node, childIndex) ==
    LET L == PtrAt(h, node, childIndex - 1)
        C == PtrAt(h, node, childIndex)
    IN IF h.nodes[L].isLeaf
       THEN memBorrowLeafFromLeft(h, node, childIndex, L, C,
                                  At(Elems(h, h.nodes[L].Pairs), h.nodes[L].Pairs.len - 1))
       ELSE memBorrowIntermFromLeft(h, node, childIndex, L, C,
                                    At(Elems(h, h.nodes[L].Keys), h.nodes[L].Keys.len - 1),
                                    At(Elems(h, h.nodes[L].Pointers), h.nodes[L].Pointers.len - 1))

(* borrowFromRight between the leaves C and R; the new separator is read *)
(* from the right leaf after the append to the child                     *)
memBorrowLeafFromRight(h, node, childIndex, C, R, borrowed, slack) ==
    LET h1 == [h EXCEPT !.nodes[R].Pairs = Reslice(@, 1, @.len)]
        c == memAppend(h1, h1.nodes[C].Pairs, <<borrowed>>, slack)
        h2 == [c.h EXCEPT !.nodes[C].Pairs = c.s]
    IN SetElem(h2, h2.nodes[node].Keys, childIndex, At(Elems(h2, h2.nodes[R].Pairs), 0).K)

(* borrowFromRight between the internal nodes C and R *)
memBorrowIntermFromRight(h, node, childIndex, C, R, borrowedKey, borrowedPtr, slack) ==
    LET h1 == [h EXCEPT !.nodes[R].Keys = Reslice(@, 1, @.len),
                        !.nodes[R].Pointers = Reslice(@, 1, @.len)]
        k == memAppend(h1, h1.nodes[C].Keys, <<borrowedKey>>, slack)
        h2 == [k.h EXCEPT !.nodes[C].Keys = k.s]
        p == memAppend(h2, h2.nodes[C].Pointers, <<borrowedPtr>>, slack)
        h3 == [p.h EXCEPT !.nodes[C].Pointers = p.s]
    IN SetElem(h3, h3.nodes[node].Keys, childIndex, At(Elems(h3, h3.nodes[R].Keys), 0))

memBorrowFromRight(h, node, childIndex, slack) ==
    LET R == PtrAt(h, node, childIndex + 1)
        C == PtrAt(h, node, childIndex)
    IN IF h.nodes[R].isLeaf
       THEN memBorrowLeafFromRight(h, node, childIndex, C, R,
                                   At(Elems(h, h.nodes[R].Pairs), 0), slack)
       ELSE memBorrowIntermFromRight(h, node, childIndex, C, R,
                                     At(Elems(h, h.nodes[R].Keys), 0),
                                     At(Elems(h, h.nodes[R].Pointers), 0), slack)

(* the leaf into takes the pairs of the leaf from and its place before *)
(* from.next                                                           *)
memJoinLeaves(h, into, from, slack) ==
    LET a == memAppend(h, h.nodes[into].Pairs, Elems(h, h.nodes[from].Pairs), slack)
        h1 == [a.h EXCEPT !.nodes[into].Pairs = a.s, !.nodes[into].next = a.h.nodes[from].next]
    IN IF h1.nodes[from].next # 0
       THEN [h1 EXCEPT !.nodes[h1.nodes[from].next].prev = into]
       ELSE h1

(* the internal node into takes the separator, then the keys and pointers *)
(* of the internal node from                                              *)
memJoinInterms(h, into, from, separatorKey, slack) ==
    LET a == memAppend(h, h.nodes[into].Keys, <<separatorKey>>, slack)
        h1 == [a.h EXCEPT !.nodes[into].Keys = a.s]
        b == memAppend(h1, h1.nodes[into].Keys, Elems(h1, h1.nodes[from].Keys), slack)
        h2 == [b.h EXCEPT !.nodes[into].Keys = b.s]
        c == memAppend(h2, h2.nodes[into].Pointers, Elems(h2, h2.nodes[from].Pointers), slack)
    IN [c.h EXCEPT !.nodes[into].Pointers = c.s]

memMergeLeft(h, node, childIndex, slack) ==
    LET L == PtrAt(h, node, childIndex - 1)
        C == PtrAt(h, node, childIndex)
    IN IF h.nodes[L].isLeaf THEN memJoinLeaves(h, L, C, slack)
       ELSE memJoinInterms(h, L, C, At(Elems(h, h.nodes[node].Keys), childIndex - 1), slack)

memMergeRight(h, node, childIndex, slack) ==
    LET R == PtrAt(h, node, childIndex + 1)
        C == PtrAt(h, node, childIndex)
    IN IF h.nodes[R].isLeaf THEN memJoinLeaves(h, C, R, slack)
       ELSE memJoinInterms(h, C, R, At(Elems(h, h.nodes[node].Keys), childIndex), slack)

(* handleUnderflow after mergeLeft: the shortened slices are assigned back *)
(* to the node                                                             *)
memShrinkAssigned(h, node, keyIndex, ptrIndex, ord) ==
    LET k == memRemoveAt(h, h.nodes[node].Keys, keyIndex)
        h1 == [k.h EXCEPT !.nodes[node].Keys = k.s]
        p == memRemoveAt(h1, h1.nodes[node].Pointers, ptrIndex)
        h2 == [p.h EXCEPT !.nodes[node].Pointers = p.s]
    IN MDelRes(h2, h2.nodes[node].Keys.len < (ord - 1) \div 2, NoErr)

(* handleUnderflow after mergeRight: removeAt moves the elements inside the *)
(* arrays and its results are dropped, the node keeps its slices            *)
memShrinkDropped(h, node, keyIndex, ptrIndex, ord) ==
    LET k == memRemoveAt(h, h.nodes[node].Keys, keyIndex)
        p == memRemoveAt(k.h, k.h.nodes[node].Pointers, ptrIndex)
    IN MDelRes(p.h, p.h.nodes[node].Keys.len < (ord - 1) \div 2, NoErr)

memHandleUnderflow(h, node, childIndex, ord, slack) ==
    IF childIndex > 0 /\ memCanBorrowFrom(h, PtrAt(h, node, childIndex - 1), ord)
    THEN MDelRes(memBorrowFromLeft(h, node, childIndex), FALSE, NoErr)
    ELSE IF /\ childIndex < h.nodes[node].Pointers.len - 1
            /\ memCanBorrowFrom(h, PtrAt(h, node, childIndex + 1), ord)
    THEN MDelRes(memBorrowFromRight(h, node, childIndex, slack), FALSE, NoErr)
    ELSE IF childIndex > 0
    THEN memShrinkAssigned(memMergeLeft(h, node, childIndex, slack), node,
                           childIndex - 1, childIndex, ord)
    ELSE IF childIndex < h.nodes[node].Pointers.len - 1
    THEN memShrinkDropped(memMergeRight(h, node, childIndex, slack), node,
                          childIndex, childIndex + 1, ord)
    ELSE MDelRes(h, FALSE, "unexpected: no siblings available for merge")

(* deleteFromInternal after the recursive call returned c *)
memAfterChildDelete(c, node, childIndex, ord, slack) ==
    IF c.err # NoErr THEN MDelRes(c.h, FALSE, c.err)
    ELSE IF ~c.underflow THEN MDelRes(c.h, FALSE, NoErr)
    ELSE memHandleUnderflow(c.h, node, childIndex, ord, slack)

RECURSIVE memDelete(_, _, _, _, _)
memDeleteFromInternal(h, key, node, ord, childIndex, slack) ==
    IF childIndex >= h.nodes[node].Pointers.len THEN MDelRes(h, FALSE, "invalid child index")
    ELSE memAfterChildDelete(memDelete(h, key, PtrAt(h, node, childIndex), ord, slack),
                             node, childIndex, ord, slack)

memDelete(h, key, node, ord, slack) ==
    IF h.nodes[node].isLeaf
    THEN memDeleteFromLeaf(h, node, ord, leafBinarySearch(key, Elems(h, h.nodes[node].Pairs)))
    ELSE memDeleteFromInternal(h, key, node, ord,
                               upperBound(key, Elems(h, h.nodes[node].Keys)), slack)

(* Tree.Delete after delete returned r on the root *)
memCollapseRoot(t, r) ==
    IF r.err # NoErr THEN MemRes([t EXCEPT !.h = r.h], r.err)
    ELSE IF r.underflow /\ ~r.h.nodes[t.root].isLeaf /\ r.h.nodes[t.root].Keys.len = 0
    THEN MemRes([t EXCEPT !.h = r.h, !.root = PtrAt(r.h, t.root, 0)], NoErr)
    ELSE MemRes([t EXCEPT !.h = r.h], NoErr)

MemTreeDelete(t, key, slack) ==
    IF t.root = 0 THEN MemRes(t, "tree is empty")
    ELSE IF MemSearch(t, key).err # NoErr THEN MemRes(t, MemSearch(t, key).err)
    ELSE memCollapseRoot(t, memDelete(t.h, key, t.root, t.order, slack))

----------------------------------------------------------------------------
(* The in-memory tree state machine *)

(* the value stored with key by the next call: every call brings its own *)
MemValueOf(key) == key + 100 * (memOps + 1)

MemInit ==
    /\ RowIdle
    /\ CodecIdle
    /\ AddrIdle
    /\ order = 3
    /\ pages = <<>>
    /\ rootPageID = 0
    /\ firstFreePage = 0
    /\ hdrRoot = 0
    /\ hdrOrder = order
    /\ hdrFree = 0
    /\ isOpen = FALSE
    /\ stored = {}
    /\ last = [op |-> "none", err |-> NoErr]
    /\ nops = 0
    /\ \E ord \in MemOrders :
         /\ memNodes = NewTree(ord).h.nodes
         /\ memArrs = NewTree(ord).h.arrs
         /\ memRoot = NewTree(ord).root
         /\ memOrder = ord
    /\ memLast = [op |-> "create", key |-> 0, err |-> NoErr]
    /\ memOps = 0

(* a call returned r, or panicked and left the program dead *)
MemReturned(op, key, r) ==
    IF r.t.h.panic
    THEN /\ memLast' = [op |-> op, key |-> key, err |-> "panic"]
         /\ UNCHANGED <<memNodes, memArrs, memRoot, memOrder>>
    ELSE /\ memNodes' = r.t.h.nodes
         /\ memArrs' = r.t.h.arrs
         /\ memRoot' = r.t.root
         /\ memOrder' = r.t.order
         /\ memLast' = [op |-> op, key |-> key, err |-> r.err]

MemInsert(key, slack) ==
    /\ memLast.err # "panic"
    /\ memOps < MaxMemOps
    /\ memOps' = memOps + 1
    /\ MemReturned("insert", key, MemTreeInsert(MemTree, key, MemValueOf(key), slack))
    /\ UNCHANGED treeVars
    /\ UNCHANGED rowVars
    /\ UNCHANGED codecVars
    /\ UNCHANGED addrVars

MemDelete(key, slack) ==
    /\ memLast.err # "panic"
    /\ memOps < MaxMemOps
    /\ memOps' = memOps + 1
    /\ MemReturned("delete", key, MemTreeDelete(MemTree, key, slack))
    /\ UNCHANGED treeVars
    /\ UNCHANGED rowVars
    /\ UNCHANGED codecVars
    /\ UNCHANGED addrVars

MemNext ==
    \/ \E key \in MemKeys : \E slack \in Slack : MemInsert(key, slack)
    \/ \E key \in MemKeys : \E slack \in Slack : MemDelete(key, slack)

MemSpec == MemInit /\ [][MemNext]_vars

(* no call has panicked *)
MemNoPanic == memLast.err # "panic"

----------------------------------------------------------------------------
(* In-memory tree claims, checked under MemSpec *)

(* this step is a call of Tree.Insert with a key that Search finds *)
InsertOfPresent ==
    /\ memOps' = memOps + 1
    /\ memLast'.op = "insert"
    /\ MemSearch(MemTree, memLast'.key).err = NoErr

(* C32: in the in-memory tree, Insert of a key that is already present *)
(* returns the duplicate-key error and leaves the tree unchanged       *)
C32_MemDuplicateRejected ==
    [][InsertOfPresent =>
          /\ memLast'.err = "duplicate key"
          /\ UNCHANGED <<memNodes, memArrs, memRoot>>]_vars

(* handleUnderflow takes its merge-right branch for the child at childIndex *)
memMergesRight(h, node, childIndex, ord) ==
    /\ ~(childIndex > 0 /\ memCanBorrowFrom(h, PtrAt(h, node, childIndex - 1), ord))
    /\ ~(/\ childIndex < h.nodes[node].Pointers.len - 1
         /\ memCanBorrowFrom(h, PtrAt(h, node, childIndex + 1), ord))
    /\ ~(childIndex > 0)
    /\ childIndex < h.nodes[node].Pointers.len - 1

(* the parent node before and after one merge-right of handleUnderflow *)
MergeRightSite(h, node, childIndex, ord, slack) ==
    [before |-> h.nodes[node],
     after  |-> memHandleUnderflow(h, node, childIndex, ord, slack).h.nodes[node]]

(* the merge-right resolutions that delete(key) performs below node, the *)
(* one at node itself included                                           *)
RECURSIVE memMergeRightSites(_, _, _, _, _)
memMergeRightSitesAt(h, key, node, ord, slack, childIndex, c) ==
    IF childIndex >= h.nodes[node].Pointers.len THEN {}
    ELSE memMergeRightSites(h, key, PtrAt(h, node, childIndex), ord, slack)
         \cup (IF c.err = NoErr /\ c.underflow /\ ~c.h.panic
                  /\ memMergesRight(c.h, node, childIndex, ord)
               THEN {MergeRightSite(c.h, node, childIndex, ord, slack)}
               ELSE {})

memMergeRightSites(h, key, node, ord, slack) ==
    IF h.nodes[node].isLeaf THEN {}
    ELSE memMergeRightSitesAt(h, key, node, ord, slack,
            upperBound(key, Elems(h, h.nodes[node].Keys)),
            IF upperBound(key, Elems(h, h.nodes[node].Keys)) >= h.nodes[node].Pointers.len
            THEN MDelRes(h, FALSE, "invalid child index")
            ELSE memDelete(h, key, PtrAt(h, node, upperBound(key, Elems(h, h.nodes[node].Keys))),
                           ord, slack))

(* this step is a call of Tree.Delete that reached delete on the root *)
DeleteOfPresent ==
    /\ memOps' = memOps + 1
    /\ memLast'.op = "delete"
    /\ memRoot # 0
    /\ MemSearch(MemTree, memLast'.key).err = NoErr

(* C33: in the in-memory tree, when handleUnderflow resolves a child's *)
(* underflow by merging the child with its right sibling, the parent   *)
(* node has one key and one child pointer fewer than before            *)
C33_MergeRightShrinksParent ==
    [][DeleteOfPresent =>
          \A slack \in Slack :
             \A s \in memMergeRightSites(MemHeap, memLast'.key, memRoot, memOrder, slack) :
                /\ s.after.Keys.len = s.before.Keys.len - 1
                /\ s.after.Pointers.len = s.before.Pointers.len - 1]_vars

----------------------------------------------------------------------------
(* Index file: the pages of the tree and the pages of the free list *)

(* the page ids met when following the next-free pointers from pageID, *)
(* whatever the tombstone bytes say, for at most fuel pages            *)
RECURSIVE FreeWalk(_, _, _)
FreeWalk(d, pageID, fuel) ==
    IF pageID = 0 \/ fuel = 0 \/ ~SlotReadable(d, freeSlot(pageID)) THEN <<>>
    ELSE <<pageID>> \o FreeWalk(d, ReadSlot(d, freeSlot(pageID)).nextFree, fuel - 1)

(* the free list as the header of the file gives it *)
IndexFreeList(d) == FreeWalk(d, d.hdrFree, Fuel(d))

NoRepeats(s) == \A i, j \in 1..Len(s) : i # j => s[i] # s[j]

(* the walk reached 0 before the fuel ran out, over pages of the file only *)
EndsAtZero(d, s) ==
    /\ Len(s) < Fuel(d)
    /\ s # <<>> => /\ SlotReadable(d, freeSlot(Last(s)))
                   /\ ReadSlot(d, freeSlot(Last(s))).nextFree = 0
    /\ s = <<>> => d.hdrFree = 0

(* an Insert or Delete call has returned, with or without an error *)
CallReturned == isOpen /\ last.op \in {"insert", "delete"}

PagesPartitioned(d, T, F) ==
    /\ \A p \in T : Readable(d, p)
    /\ NoRepeats(F)
    /\ EndsAtZero(d, F)
    /\ \A p \in SeqRange(F) : readNode(d, p).err = "page is marked deleted"
    /\ T \cap SeqRange(F) = {}
    /\ allocatePage(d).err = NoErr
    /\ allocatePage(d).id \notin T

----------------------------------------------------------------------------
(* Index: the pairs on the leaf chain before and after a call *)

(* the pairs met on the leaf chain from the leftmost leaf, in chain order *)
ChainPairs(d) == PairsOfLeaves(d, ForwardChain(d), 0)

Count(s, p) == Cardinality({i \in 1..Len(s) : s[i] = p})

(* as multisets, after is before with one more p *)
OneMore(before, after, p) ==
    \A q \in SeqRange(before) \cup SeqRange(after) \cup {p} :
       Count(after, q) = Count(before, q) + (IF q = p THEN 1 ELSE 0)

(* Insert(key, value) returned r on a tree whose chain held before *)
InsertAddsOnePair(before, key, value, r) ==
    r.err = NoErr => OneMore(before, ChainPairs(r.d), LeafPair(key, value))

(* Delete(key) returned r on a tree whose chain held before *)
DeleteRemovesOnePair(before, key, r) ==
    r.err = NoErr =>
       \E p \in SeqRange(before) :
          /\ p.K = key
          /\ OneMore(ChainPairs(r.d), before, p)

OnlyThePairChanges(d, before) ==
    \A k \in Keys :
       /\ InsertAddsOnePair(before, k, ValueOf(k), DiskTreeInsert(d, k, ValueOf(k)))
       /\ DeleteRemovesOnePair(before, k, DiskTreeDelete(d, k))

InsertSplits(d, r) == r.err = NoErr /\ (Len(r.d.pages) > Len(d.pages) \/ r.d.firstFreePage # d.firstFreePage)
(* a Delete would merge (it frees a page) *)
DeleteMerges(d, r) == r.err = NoErr /\ r.d.firstFreePage # d.firstFreePage

----------------------------------------------------------------------------
(* Row file: what a call leaves of the other rows *)

RowStateNext ==
    [file |-> rowFile', firstFreePage |-> rowObj'.firstFreePage,
     schemaCodes |-> rowObj'.schemaCodes, columnCount |-> rowObj'.columnCount]

(* this step is a WriteRow or FreeRowAt call that returned no error *)
RowCallSucceeded ==
    /\ rowOpen
    /\ rowOps' = rowOps + 1
    /\ rowLast'.op \in {"write", "free"}
    /\ rowLast'.err = NoErr

(* the rows that were live before the step at another offset than the *)
(* one the call was given or returned                                 *)
OtherLiveRows == {x \in rowLive : x.offset # rowLast'.offset}

(* the span of the slot the call filled or freed: that of the row written, *)
(* or of the row that was freed                                            *)
SlotSpan ==
    IF rowLast'.op = "write"
    THEN 2 + Uint16(Explode(ReadAt(rowFile', rowLast'.offset, 2).buf))
    ELSE 2 + Uint16(Explode(ReadAt(rowFile, rowLast'.offset, 2).buf))

(* the bytes of the data area before the slot and after it are as they were *)
OutsideSlotKept(before, after, offset, span) ==
    /\ SubBytes(after, DataHeaderSize, offset) = SubBytes(before, DataHeaderSize, offset)
    /\ SubBytes(after, offset + span, Max2(RunLen(before), offset + span))
          = SubBytes(before, offset + span, Max2(RunLen(before), offset + span))

----------------------------------------------------------------------------
(* Row file: the free list as allocatePage walks it *)

(* from curr on, the list meets only marked offsets outside live, none of *)
(* them in visited or twice, and reaches 0                                *)
RECURSIVE FreeListSound(_, _, _, _)
soundAfter(file, curr, visited, live, h) ==
    /\ h.err = NoErr
    /\ Uint16(Explode(SubBytes(h.buf, 0, 2))) = FreeMarker
    /\ curr \notin live
    /\ FreeListSound(file, Uint64(Explode(SubBytes(h.buf, 2, 10))), visited \cup {curr}, live)

FreeListSound(file, curr, visited, live) ==
    \/ curr = 0
    \/ /\ curr \notin visited
       /\ soundAfter(file, curr, visited, live, ReadAt(file, curr, 12))

(* the first-fit walk of WriteRow ends, and not on a slot without marker *)
WalkEnds(r) == r.err \notin {"corrupted free page", "does not terminate"}

----------------------------------------------------------------------------
(* Index: the errors Insert and Delete return *)

InsertErrors == {NoErr, "duplicate key"}
DeleteErrors == {NoErr, "key not found", "tree is empty"}

====
